---- MODULE Spec2Model ----
(***************************************************************************)
(* Model of the email worker (src/unnamed/part_000): the processor         *)
(* pipeline run by email(), the spam predicate, the header parser and      *)
(* serialiser, the address rewriters and the XML-RPC client.               *)
(*                                                                         *)
(* JavaScript strings are TLA+ strings; TLC evaluates Len, \o and SubSeq   *)
(* on them, so every string function below works character by character   *)
(* as the source does.  A Uint8Array holding text is the string of its     *)
(* bytes (one character per ASCII byte).                                   *)
(***************************************************************************)
EXTENDS Integers, Sequences, FiniteSets, TLC

(* ----------------------------------------------------------------------- *)
(* Bounds of the model                                                     *)
(* ----------------------------------------------------------------------- *)
\* longest sender display name drawn for the spam predicate
MaxName == 10
\* most elements concatenated into one backend response body
MaxParts == 2
\* most addresses in the address list of a header of the header runs
MaxAddrs == 2
\* most lines in the header section of a message of the parser runs
MaxLines == 3

(* ----------------------------------------------------------------------- *)
(* JavaScript string primitives                                            *)
(* ----------------------------------------------------------------------- *)
\* s[i-1] of JavaScript (positions are 1-based here)
Ch(s, i) == SubSeq(s, i, i)

UpperAlpha == "ABCDEFGHIJKLMNOPQRSTUVWXYZ"
LowerAlpha == "abcdefghijklmnopqrstuvwxyz"
Digits == "0123456789"

\* whether the one-character string c occurs in the string set
InStr(c, set) == \E i \in 1..Len(set) : Ch(set, i) = c

IsUpper(c) == InStr(c, UpperAlpha)
IsLower(c) == InStr(c, LowerAlpha)
IsDigit(c) == InStr(c, Digits)
\* Four characters that no input of the model uses as themselves stand for
\* what ASCII cannot write:
\*   BOM          the byte order mark U+FEFF, bytes EF BB BF
\*   REPLACEMENT  the replacement character U+FFFD, bytes EF BF BD
\*   BADBYTE      the byte FF, which is not valid UTF-8
\*   NUL          the byte 00
BOM == "~"
REPLACEMENT == "|"
BADBYTE == "#"
NUL == "^"

\* \s of a regular expression and the characters trim() removes: of the
\* characters a string of the model can hold, the space, the tab, the line
\* feed, the form feed, the carriage return and U+FEFF
IsWs(c) == c \in {" ", "\t", "\n", "\f", "\r", BOM}

LowerCh(c) ==
    IF IsUpper(c)
    THEN Ch(LowerAlpha, CHOOSE i \in 1..26 : Ch(UpperAlpha, i) = c)
    ELSE c

\* the lower-cased characters lo..hi of s, by halves
RECURSIVE LowerRange(_, _, _)
LowerRange(s, lo, hi) ==
    IF lo > hi THEN ""
    ELSE IF lo = hi THEN LowerCh(Ch(s, lo))
    ELSE LowerRange(s, lo, (lo + hi) \div 2) \o LowerRange(s, (lo + hi) \div 2 + 1, hi)

\* String.prototype.toLowerCase
ToLowerCase(s) == LowerRange(s, 1, Len(s))

Min(S) == CHOOSE x \in S : \A y \in S : x <= y
Max(S) == CHOOSE x \in S : \A y \in S : y <= x
\* the least element of a set of positions, or none when it is empty
MinOr(S, none) == IF S = {} THEN none ELSE Min(S)

\* the characters of s from the first to the last of the positions keep
Between(s, keep) == IF keep = {} THEN "" ELSE SubSeq(s, Min(keep), Max(keep))

\* String.prototype.trim
Trim(s) == Between(s, {i \in 1..Len(s) : ~IsWs(Ch(s, i))})

\* whether lit occurs in s at position i
MatchAt(s, i, lit) == i >= 1 /\ i + Len(lit) - 1 <= Len(s) /\ SubSeq(s, i, i + Len(lit) - 1) = lit

\* String.prototype.indexOf(lit, from - 1) + 1: the first position >= from
\* where lit occurs, 0 when there is none
IndexOf(s, lit, from) ==
    MinOr({i \in from..(Len(s) - Len(lit) + 1) : MatchAt(s, i, lit)}, 0)

\* String.prototype.includes
Includes(s, lit) == IndexOf(s, lit, 1) # 0

\* String.prototype.startsWith / endsWith
StartsWith(s, lit) == MatchAt(s, 1, lit)
EndsWith(s, lit) == MatchAt(s, Len(s) - Len(lit) + 1, lit)

\* s.replace(/[^...]/g, '').length: the number of characters of s that are
\* characters of set
CountIn(s, set) == Cardinality({i \in 1..Len(s) : InStr(Ch(s, i), set)})

\* the first position >= i of s that is not white space (Len(s)+1 at the end)
SkipWs(s, i) == MinOr({j \in i..Len(s) : ~IsWs(Ch(s, j))}, Len(s) + 1)

\* the first position >= i of s that is not a decimal digit
SkipDigits(s, i) == MinOr({j \in i..Len(s) : ~IsDigit(Ch(s, j))}, Len(s) + 1)

\* Array.prototype.join
RECURSIVE Join(_, _)
Join(parts, sep) ==
    IF Len(parts) = 0 THEN ""
    ELSE IF Len(parts) = 1 THEN parts[1]
    ELSE parts[1] \o sep \o Join(Tail(parts), sep)

\* the pieces of s from position from on, cut at the positions points
RECURSIVE Pieces(_, _, _)
Pieces(s, points, from) ==
    IF points = {} THEN <<SubSeq(s, from, Len(s))>>
    ELSE <<SubSeq(s, from, Min(points) - 1)>> \o
         Pieces(s, points \ {Min(points)}, Min(points) + 1)

\* String.prototype.split on a one-character separator
Split(s, sep) == Pieces(s, {i \in 1..Len(s) : Ch(s, i) = sep}, 1)

(* ----------------------------------------------------------------------- *)
(* ProcessingResult                                                        *)
(* ----------------------------------------------------------------------- *)
\* { canContinue: true }: the rejectReason property is absent
Continue == [canContinue |-> TRUE]
\* { canContinue: false, rejectReason: reason }
Reject(reason) == [canContinue |-> FALSE, rejectReason |-> reason]

(* ----------------------------------------------------------------------- *)
(* SpamCheckProcessor                                                      *)
(* ----------------------------------------------------------------------- *)
blocklist == {"spam@example.com", "blocked@example.com"}

spamKeywords ==
    << "viagra", "prince", "winner", "quick discussion", "intro call",
       "exploratory call", "domaine expirera", "market trends", "collaboration",
       "website builder", "running ads", "website error", "content error",
       "full proposal", "cost your business", "send you a quote", "get a sample",
       "market research", "confirm your delivery", "re: proposal", "urgent notice",
       "tax discrepancy" >>

\* the least number of letters a sender name needs for the case analysis
MinLetters == 8
\* the inclusive percentage range of the case analysis
MinPercent == 40
MaxPercent == 60

\* message.headers.get(name) || '': the header map has one value per
\* lower-cased name, an absent header has no key
HeaderOrEmpty(message, name) ==
    IF name \in DOMAIN message.headers THEN message.headers[name] ELSE ""

\* whether /<[^>]+>/ matches s starting at position i: a '<', one or more
\* characters other than '>', then a '>'
AngleAt(s, i) == Ch(s, i) = "<" /\ IndexOf(s, ">", i + 1) > i + 1

\* the group of a match of /<([^>]+)>/ that starts at position i of s, and s
\* itself when i is 0 (no match)
AngleGroup(s, i) ==
    IF i = 0 THEN s ELSE SubSeq(s, i + 1, IndexOf(s, ">", i + 1) - 1)

\* fromHeader.match(/<([^>]+)>/): the leftmost match; senderEmail is its
\* group, or the whole header when nothing matches
SenderEmail(fromHeader) ==
    AngleGroup(fromHeader, MinOr({i \in 1..Len(fromHeader) : AngleAt(fromHeader, i)}, 0))

\* the trimmed text of s before the last of the positions at, '' when there
\* is none
NameBefore(s, at) == IF at = {} THEN "" ELSE Trim(SubSeq(s, 1, Max(at) - 1))

\* fromHeader.match(/^(.*)<[^>]+>/): the greedy group ends before the last
\* '<' that opens a match and holds no line terminator; senderName is the
\* trimmed group, or '' when nothing matches
SenderName(fromHeader) ==
    NameBefore(fromHeader,
               {i \in 1..Len(fromHeader) :
                  /\ AngleAt(fromHeader, i)
                  /\ \A j \in 1..(i - 1) : Ch(fromHeader, j) \notin {"\n", "\r"}})

IsLetter(c) == IsUpper(c) \/ IsLower(c)
IsAlnum(c) == IsLetter(c) \/ IsDigit(c)

\* /^[A-Za-z0-9]+$/.test(senderName)
IsAlnumRun(senderName) ==
    Len(senderName) > 0 /\ \A i \in 1..Len(senderName) : IsAlnum(Ch(senderName, i))

\* A case analysis whose range of percentages excludes its two ends; C10
\* does not hold of it.
CaseAnalysisExclusive(totalLetters, uppercaseCount, lowercaseCount) ==
    /\ totalLetters >= 8
    /\ 100 * uppercaseCount > 40 * totalLetters
    /\ 100 * uppercaseCount < 60 * totalLetters
    /\ 100 * lowercaseCount > 40 * totalLetters
    /\ 100 * lowercaseCount < 60 * totalLetters

\* the case analysis of an alphanumeric sender name.  The percentages are
\* (count / totalLetters) * 100 in double arithmetic; compared with 40 and
\* 60 they order exactly as 100 * count against 40 and 60 times totalLetters
\* (checked for every total up to 40), which is how they are computed here.
CaseAnalysis(totalLetters, uppercaseCount, lowercaseCount) ==
    /\ totalLetters >= MinLetters
    /\ 100 * uppercaseCount >= MinPercent * totalLetters
    /\ 100 * uppercaseCount <= MaxPercent * totalLetters
    /\ 100 * lowercaseCount >= MinPercent * totalLetters
    /\ 100 * lowercaseCount <= MaxPercent * totalLetters

ResemblesSpamPattern(senderName) ==
    CaseAnalysis(CountIn(senderName, UpperAlpha \o LowerAlpha), CountIn(senderName, UpperAlpha),
                 CountIn(senderName, LowerAlpha))

\* for (const keyword of spamKeywords) if (lowercaseSubject.includes(keyword))
KeywordIn(lowercaseSubject) ==
    \E k \in 1..Len(spamKeywords) : Includes(lowercaseSubject, spamKeywords[k])

HasSpamKeyword(subject) == KeywordIn(ToLowerCase(subject))

\* The tests with the subject keywords ahead of the sender rules; C9 does
\* not hold of it.
SpamTestsKeywordsFirst(senderEmailLower, senderName, subject) ==
    IF HasSpamKeyword(subject)
    THEN Reject("Message contains spam keywords.")
    ELSE IF senderEmailLower \in blocklist
    THEN Reject("Sender is blocked.")
    ELSE IF EndsWith(senderEmailLower, "@gmail.com") /\ senderName = ""
    THEN Reject("Sender name is missing.")
    ELSE IF /\ EndsWith(senderEmailLower, "@gmail.com")
            /\ IsAlnumRun(senderName)
            /\ ResemblesSpamPattern(senderName)
    THEN Reject("Sender name resembles spam pattern.")
    ELSE Continue

\* the tests of SpamCheckProcessor.process() in their order, on the values
\* it has computed from the From and Subject headers
SpamTests(senderEmailLower, senderName, subject) ==
    IF senderEmailLower \in blocklist
    THEN Reject("Sender is blocked.")
    ELSE IF EndsWith(senderEmailLower, "@gmail.com") /\ senderName = ""
    THEN Reject("Sender name is missing.")
    ELSE IF /\ EndsWith(senderEmailLower, "@gmail.com")
            /\ IsAlnumRun(senderName)
            /\ ResemblesSpamPattern(senderName)
    THEN Reject("Sender name resembles spam pattern.")
    ELSE IF HasSpamKeyword(subject)
    THEN Reject("Message contains spam keywords.")
    ELSE Continue

\* SpamCheckProcessor.process(): the ProcessingResult for a message
SpamCheckProcessor(message) ==
    SpamTests(ToLowerCase(SenderEmail(HeaderOrEmpty(message, "from"))),
              SenderName(HeaderOrEmpty(message, "from")),
              HeaderOrEmpty(message, "subject"))

(* ----------------------------------------------------------------------- *)
(* Bytes and text                                                          *)
(* ----------------------------------------------------------------------- *)
\* A byte buffer is written as a string with one character per ASCII byte;
\* BOM, REPLACEMENT, BADBYTE and NUL are the characters defined with the
\* string primitives.

\* the decoded bytes lo..hi of a buffer, by halves
RECURSIVE DecodeRange(_, _, _)
DecodeRange(bytes, lo, hi) ==
    IF lo > hi THEN ""
    ELSE IF lo = hi THEN (IF Ch(bytes, lo) = BADBYTE THEN REPLACEMENT ELSE Ch(bytes, lo))
    ELSE DecodeRange(bytes, lo, (lo + hi) \div 2) \o
         DecodeRange(bytes, (lo + hi) \div 2 + 1, hi)

\* new TextDecoder('utf-8', { fatal: false, ignoreBOM: false }).decode(bytes):
\* a leading byte order mark is dropped, an invalid byte decodes to U+FFFD
TextDecode(bytes) ==
    DecodeRange(bytes, IF StartsWith(bytes, BOM) THEN 2 ELSE 1, Len(bytes))

\* new TextEncoder().encode(text): every character of a string has a UTF-8
\* encoding, written here by the same character
TextEncode(text) == text

(* ----------------------------------------------------------------------- *)
(* parseEmail / reSerialiseEmail                                           *)
(* ----------------------------------------------------------------------- *)
\* { raw, name, value }
Header(name, value) == [raw |-> name \o ": " \o value, name |-> name, value |-> value]

\* the characters lo..hi of text without each '\r' that a '\n' follows, by
\* halves
RECURSIVE NormaliseRange(_, _, _)
NormaliseRange(text, lo, hi) ==
    IF lo > hi THEN ""
    ELSE IF lo = hi
    THEN (IF lo < Len(text) /\ Ch(text, lo) = "\r" /\ Ch(text, lo + 1) = "\n"
          THEN "" ELSE Ch(text, lo))
    ELSE NormaliseRange(text, lo, (lo + hi) \div 2) \o
         NormaliseRange(text, (lo + hi) \div 2 + 1, hi)

\* text.replace(/\r?\n/g, '\n')
NormaliseNewlines(text) == NormaliseRange(text, 1, Len(text))

\* the headers with the header being collected pushed, if it has a name
PushCurrent(st) ==
    IF st.currentHeaderName # ""
    THEN Append(st.headers, Header(st.currentHeaderName, st.currentHeaderValue))
    ELSE st.headers

\* a line that starts a header, with idx = line.indexOf(':') + 1
StartHeader(st, line, idx) ==
    [st EXCEPT
       !.headers = PushCurrent(st),
       !.currentHeaderName =
           IF idx # 0 THEN Trim(SubSeq(line, 1, idx - 1)) ELSE Trim(line),
       !.currentHeaderValue =
           IF idx # 0 THEN Trim(SubSeq(line, idx + 1, Len(line))) ELSE ""]

\* one iteration of the loop over allLines
ParseLine(st, line) ==
    IF ~st.isHeaderSection
    THEN [st EXCEPT !.bodyLines = Append(@, line)]
    ELSE IF Trim(line) = ""
    THEN [st EXCEPT !.headers = PushCurrent(st), !.isHeaderSection = FALSE]
    ELSE IF Ch(line, 1) \in {" ", "\t"}
    THEN [st EXCEPT !.currentHeaderValue = @ \o " " \o Trim(line)]
    ELSE StartHeader(st, line, IndexOf(line, ":", 1))

\* the variables of parseEmail after the first i iterations of its loop
RECURSIVE ParseLines(_, _)
ParseLines(allLines, i) ==
    IF i = 0
    THEN [headers |-> <<>>, bodyLines |-> <<>>, isHeaderSection |-> TRUE,
          currentHeaderName |-> "", currentHeaderValue |-> ""]
    ELSE ParseLine(ParseLines(allLines, i - 1), allLines[i])

\* what parseEmail returns from the variables its loop leaves
ParseEnd(end) ==
    [headers |-> IF end.isHeaderSection THEN PushCurrent(end) ELSE end.headers,
     body |-> TextEncode(Join(end.bodyLines, "\n"))]

\* the loop of parseEmail over allLines and what is returned after it
ParseAll(allLines) == ParseEnd(ParseLines(allLines, Len(allLines)))

\* parseEmail(rawEmail): { headers, body }
parseEmail(rawEmail) ==
    ParseAll(Split(NormaliseNewlines(TextDecode(rawEmail)), "\n"))

\* A serialiser that indents every header line after the first, which makes
\* each of them a continuation of the line before; C20 does not hold of it.
reSerialiseEmailIndented(headers, body) ==
    TextEncode(Join([i \in 1..Len(headers) |->
                       headers[i].name \o ": " \o headers[i].value], "\r\n ")
               \o "\r\n\r\n" \o TextDecode(body))

\* reSerialiseEmail(headers, body)
reSerialiseEmail(headers, body) ==
    TextEncode(Join([i \in 1..Len(headers) |->
                       headers[i].name \o ": " \o headers[i].value], "\r\n")
               \o "\r\n\r\n" \o TextDecode(body))

(* ----------------------------------------------------------------------- *)
(* Address utilities                                                       *)
(* ----------------------------------------------------------------------- *)
\* inQuotes when the scan of splitAddresses reaches position i: it starts
\* false and is toggled by every '"' before i
InQuotes(headerValue, i) ==
    Cardinality({j \in 1..(i - 1) : Ch(headerValue, j) = "\""}) % 2 = 1

\* the positions where the scan of splitAddresses pushes a part: the commas
\* it meets outside quotes
SplitPoints(headerValue) ==
    {i \in 1..Len(headerValue) : Ch(headerValue, i) = "," /\ ~InQuotes(headerValue, i)}

\* the parts pushed at the first k split points (current.trim() at each),
\* then the text after the k-th one, which is current when the scan ends
RECURSIVE SplitAt(_, _, _)
SplitAt(headerValue, points, from) ==
    IF points = {}
    THEN (IF Trim(SubSeq(headerValue, from, Len(headerValue))) # ""
          THEN <<Trim(SubSeq(headerValue, from, Len(headerValue)))>>
          ELSE <<>>)
    ELSE <<Trim(SubSeq(headerValue, from, Min(points) - 1))>> \o
         SplitAt(headerValue, points \ {Min(points)}, Min(points) + 1)

\* splitAddresses(headerValue)
splitAddresses(headerValue) == SplitAt(headerValue, SplitPoints(headerValue), 1)

\* whether s holds a line terminator, which '.' of a regular expression
\* does not match
HasLineTerminator(s) == \E i \in 1..Len(s) : Ch(s, i) \in {"\n", "\r"}

\* stripQuotes(str)
stripQuotes(str) ==
    IF \/ StartsWith(str, "\"") /\ EndsWith(str, "\"")
       \/ StartsWith(str, "'") /\ EndsWith(str, "'")
    THEN SubSeq(str, 2, Len(str) - 1)
    ELSE str

\* what parseAddress returns when the first group of its match ends before
\* position i of addrStr, and when there is no match (i = 0)
AddressAt(addrStr, i) ==
    IF i # 0
    THEN [displayName |-> stripQuotes(Trim(SubSeq(addrStr, 1, i - 1))),
          address |-> Trim(SubSeq(addrStr, i + 1, IndexOf(addrStr, ">", i + 1) - 1))]
    ELSE [displayName |-> "", address |-> Trim(addrStr)]

\* the greatest element of a set of positions, or none when it is empty
MaxOr(S, none) == IF S = {} THEN none ELSE Max(S)

\* parseAddress(addrStr): addrStr.match(/^(.*)<([^>]+)>.*$/), whose greedy
\* first group ends before the last '<' that opens a match
parseAddress(addrStr) ==
    AddressAt(addrStr,
              MaxOr({i \in 1..Len(addrStr) :
                       /\ AngleAt(addrStr, i)
                       /\ ~HasLineTerminator(SubSeq(addrStr, 1, i - 1))
                       /\ ~HasLineTerminator(SubSeq(addrStr,
                                                    IndexOf(addrStr, ">", i + 1),
                                                    Len(addrStr)))}, 0))

\* formatAddress(displayName, address)
formatAddress(displayName, address) ==
    IF displayName # "" THEN "\"" \o displayName \o "\" <" \o address \o ">"
    ELSE address

(* ----------------------------------------------------------------------- *)
(* Domain collapse                                                         *)
(* ----------------------------------------------------------------------- *)
\* str.split(/[,;]+/): the pieces between runs of ',' and ';'
RECURSIVE SplitSeparators(_)
\* the piece before the first separator, at position i, and the pieces of
\* the text after the run of separators that starts there; the whole text
\* when there is no separator (i = 0)
SplitFirst(str, i) ==
    IF i = 0 THEN <<str>>
    ELSE <<SubSeq(str, 1, i - 1)>> \o
         SplitSeparators(SubSeq(str,
                                MinOr({j \in i..Len(str) : Ch(str, j) \notin {",", ";"}},
                                      Len(str) + 1),
                                Len(str)))
SplitSeparators(str) ==
    SplitFirst(str, MinOr({i \in 1..Len(str) : Ch(str, i) \in {",", ";"}}, 0))

\* one iteration of the loop over the entries of parseDomainCollapseMap:
\* the map is a function from lower-cased domain to target address, with the
\* own keys of the object for its domain.  The assignment of a string to
\* map['__proto__'] stores nothing in a plain object.
MapSet(map, domainPart, targetAddress) ==
    IF domainPart = "" \/ targetAddress = "" \/ domainPart = "__proto__" THEN map
    ELSE [d \in DOMAIN map \cup {domainPart} |->
            IF d = domainPart THEN targetAddress ELSE map[d]]
MapSplit(map, entry, eqIndex) ==
    IF entry = "" \/ eqIndex = 0 THEN map
    ELSE MapSet(map, ToLowerCase(Trim(SubSeq(entry, 1, eqIndex - 1))),
                Trim(SubSeq(entry, eqIndex + 1, Len(entry))))
MapEntry(map, piece) == MapSplit(map, Trim(piece), IndexOf(Trim(piece), "=", 1))

\* the map after the first i entries
RECURSIVE MapEntries(_, _)
MapEntries(pieces, i) ==
    IF i = 0 THEN [d \in {} |-> ""]
    ELSE MapEntry(MapEntries(pieces, i - 1), pieces[i])

\* parseDomainCollapseMap(str)
parseDomainCollapseMap(str) ==
    MapEntries(SplitSeparators(str), Len(SplitSeparators(str)))

\* address.split('@')[1] || '': the text between the first '@' and the next
DomainPart(address) ==
    IF Len(Split(address, "@")) >= 2 THEN Split(address, "@")[2] ELSE ""

\* the address the callback returns for a parsed address and its lower-cased
\* domain.  domainMap[domainLower] is read from a plain object: without an
\* own key of that name it is the inherited Object function for
\* 'constructor' and Object.prototype for '__proto__', both truthy and
\* written into the address as their string form, and undefined otherwise.
CollapseParsed(domainMap, addrStr, parsed, domainLower) ==
    IF domainLower \in DOMAIN domainMap
    THEN formatAddress(parsed.displayName, domainMap[domainLower])
    ELSE IF domainLower = "constructor"
    THEN formatAddress(parsed.displayName, "function Object() { [native code] }")
    ELSE IF domainLower = "__proto__"
    THEN formatAddress(parsed.displayName, "[object Object]")
    ELSE addrStr

\* the callback of addresses.map in DomainCollapseProcessor.process
CollapseAddress(domainMap, addrStr) ==
    CollapseParsed(domainMap, addrStr, parseAddress(addrStr),
                   ToLowerCase(DomainPart(parseAddress(addrStr).address)))

\* a header with a new value: header.value and header.raw are rewritten
WithValue(header, newValue) ==
    [header EXCEPT !.value = newValue, !.raw = header.name \o ": " \o newValue]

\* addresses.map(...).join(', ')
CollapseAll(domainMap, addresses) ==
    Join([i \in 1..Len(addresses) |-> CollapseAddress(domainMap, addresses[i])], ", ")

\* the callback of parsedEmail.headers.map in DomainCollapseProcessor.process
CollapseHeader(domainMap, header) ==
    IF ToLowerCase(header.name) \in {"to", "cc", "bcc"}
    THEN WithValue(header, CollapseAll(domainMap, splitAddresses(header.value)))
    ELSE header

\* A collapse that maps over the headers even when the map is empty, and so
\* joins every address list anew; C18 does not hold of it.
CollapseHeadersAlways(headers, domainMap) ==
    [i \in 1..Len(headers) |-> CollapseHeader(domainMap, headers[i])]

\* the headers.map of DomainCollapseProcessor.process once the map is parsed
CollapseHeaders(headers, domainMap) ==
    IF DOMAIN domainMap = {} THEN headers
    ELSE [i \in 1..Len(headers) |-> CollapseHeader(domainMap, headers[i])]

\* the headers DomainCollapseProcessor.process leaves in the context for a
\* parsed message and the DOMAIN_COLLAPSE_MAPPING of the environment
DomainCollapseHeaders(headers, domainCollapseStr) ==
    IF Trim(domainCollapseStr) = "" THEN headers
    ELSE CollapseHeaders(headers, parseDomainCollapseMap(domainCollapseStr))

(* ----------------------------------------------------------------------- *)
(* Subaddressing                                                           *)
(* ----------------------------------------------------------------------- *)
\* address.match(/^([^+]+)\+([^@]+)@(.*)$/): the local part runs to the first
\* '+', the tag to the first '@' after it, the domain to the end of the line
PlusParts(address, p, q) ==
    IF p >= 2 /\ q >= p + 2 /\ ~HasLineTerminator(SubSeq(address, q + 1, Len(address)))
    THEN [matched |-> TRUE,
          localPart |-> SubSeq(address, 1, p - 1),
          tag |-> SubSeq(address, p + 1, q - 1),
          domainPart |-> SubSeq(address, q + 1, Len(address))]
    ELSE [matched |-> FALSE, localPart |-> "", tag |-> "", domainPart |-> ""]
PlusMatch(address) ==
    PlusParts(address, IndexOf(address, "+", 1),
              IndexOf(address, "@", IndexOf(address, "+", 1) + 1))

\* A rewriting in which every matching address overwrites the tag variable,
\* so that the last tag is the one kept; C15 does not hold of it.
StripMatchedLastTag(st, addr, parsed, m) ==
    IF m.matched
    THEN [subaddressTag |-> m.tag,
          out |-> Append(st.out,
                         formatAddress(parsed.displayName,
                                       m.localPart \o "@" \o m.domainPart))]
    ELSE [st EXCEPT !.out = Append(@, addr)]

\* the callback of addressParts.map in processSubaddressing, for the parsed
\* address and its match m: the rewritten address and the tag variable
StripMatched(st, addr, parsed, m) ==
    IF m.matched
    THEN [subaddressTag |-> IF st.subaddressTag = "" THEN m.tag ELSE st.subaddressTag,
          out |-> Append(st.out,
                         formatAddress(parsed.displayName,
                                       m.localPart \o "@" \o m.domainPart))]
    ELSE [st EXCEPT !.out = Append(@, addr)]

\* the callback of addressParts.map in processSubaddressing
StripAddress(st, addr) ==
    StripMatched(st, addr, parseAddress(addr), PlusMatch(parseAddress(addr).address))

\* addressParts.map over the first i addresses of a header, entered with the
\* tag variable subaddressTag
RECURSIVE StripAddresses(_, _, _)
StripAddresses(subaddressTag, addressParts, i) ==
    IF i = 0 THEN [subaddressTag |-> subaddressTag, out |-> <<>>]
    ELSE StripAddress(StripAddresses(subaddressTag, addressParts, i - 1),
                      addressParts[i])

\* the header a To header becomes, from what addressParts.map leaves
StripEnd(st, h, end) ==
    [subaddressTag |-> end.subaddressTag,
     updatedHeaders |-> Append(st.updatedHeaders, WithValue(h, Join(end.out, ", ")))]
StripTo(st, h, addressParts) ==
    StripEnd(st, h, StripAddresses(st.subaddressTag, addressParts, Len(addressParts)))

\* A stripping that treats the Cc and Bcc headers as it treats To; C17 does
\* not hold of it.
StripHeaderAllRecipients(st, h) ==
    IF ToLowerCase(h.name) \in {"to", "cc", "bcc"}
    THEN StripTo(st, h, splitAddresses(h.value))
    ELSE [st EXCEPT !.updatedHeaders = Append(@, h)]

\* the callback of headers.map in processSubaddressing
StripHeader(st, h) ==
    IF ToLowerCase(h.name) = "to"
    THEN StripTo(st, h, splitAddresses(h.value))
    ELSE [st EXCEPT !.updatedHeaders = Append(@, h)]

\* headers.map over the first i headers
RECURSIVE StripHeaders(_, _)
StripHeaders(headers, i) ==
    IF i = 0 THEN [subaddressTag |-> "", updatedHeaders |-> <<>>]
    ELSE StripHeader(StripHeaders(headers, i - 1), headers[i])

\* processSubaddressing(headers): { subaddressTag, updatedHeaders }
processSubaddressing(headers) == StripHeaders(headers, Len(headers))

\* A tagging whose containment test tells upper case from lower case; C16
\* does not hold of it.
TagHeaderCaseSensitive(h, bracketTag) ==
    IF /\ ToLowerCase(h.name) = "subject"
       /\ ~Includes(h.value, bracketTag)
    THEN [h EXCEPT !.value = bracketTag \o " " \o h.value,
                   !.raw = h.name \o ": " \o bracketTag \o " " \o h.value]
    ELSE h

\* the callback of headers.map in prependSubjectTag
TagHeader(h, bracketTag) ==
    IF /\ ToLowerCase(h.name) = "subject"
       /\ ~Includes(ToLowerCase(h.value), ToLowerCase(bracketTag))
    THEN [h EXCEPT !.value = bracketTag \o " " \o h.value,
                   !.raw = h.name \o ": " \o bracketTag \o " " \o h.value]
    ELSE h

\* A tagging that does not test for an empty tag, and so puts "[] " before a
\* Subject when no tag was captured; C27 does not hold of it.
prependSubjectTagAlways(headers, tag) ==
    [i \in 1..Len(headers) |-> TagHeader(headers[i], "[" \o tag \o "]")]

\* A tagging that records the tag in a header of its own, after the others;
\* C12 does not hold of it.
prependSubjectTagAddsHeader(headers, tag) ==
    IF tag = "" THEN headers
    ELSE Append([i \in 1..Len(headers) |-> TagHeader(headers[i], "[" \o tag \o "]")],
                Header("X-Tag", tag))

\* prependSubjectTag(headers, tag)
prependSubjectTag(headers, tag) ==
    IF tag = "" THEN headers
    ELSE [i \in 1..Len(headers) |-> TagHeader(headers[i], "[" \o tag \o "]")]

\* the headers SubaddressingProcessor.process leaves in the context
SubaddressingHeaders(headers) ==
    prependSubjectTag(processSubaddressing(headers).updatedHeaders,
                      processSubaddressing(headers).subaddressTag)

(* ----------------------------------------------------------------------- *)
(* base64ArrayBuffer                                                       *)
(* ----------------------------------------------------------------------- *)
\* the printable ASCII characters from code 32 to code 95 and from code 97
\* to code 126 (code 96, the grave accent, cannot be written in a string
\* here and occurs in no input of the model)
AsciiLow == " !\"#$%&'()*+,-./0123456789:;<=>?@ABCDEFGHIJKLMNOPQRSTUVWXYZ[\\]^_"
AsciiHigh == "abcdefghijklmnopqrstuvwxyz{|}~"

\* the code of each printable ASCII character
AsciiCode ==
    [c \in {Ch(AsciiLow, i) : i \in 1..Len(AsciiLow)} \cup
            {Ch(AsciiHigh, i) : i \in 1..Len(AsciiHigh)} |->
        IF InStr(c, AsciiLow)
        THEN 31 + (CHOOSE i \in 1..Len(AsciiLow) : Ch(AsciiLow, i) = c)
        ELSE 96 + (CHOOSE i \in 1..Len(AsciiHigh) : Ch(AsciiHigh, i) = c)]

\* the byte values of one character of a byte buffer
ByteValues(c) ==
    IF c = BOM THEN <<239, 187, 191>>
    ELSE IF c = REPLACEMENT THEN <<239, 191, 189>>
    ELSE IF c = BADBYTE THEN <<255>>
    ELSE IF c = NUL THEN <<0>>
    ELSE IF c = "\t" THEN <<9>>
    ELSE IF c = "\n" THEN <<10>>
    ELSE IF c = "\f" THEN <<12>>
    ELSE IF c = "\r" THEN <<13>>
    ELSE <<AsciiCode[c]>>

encodings == "ABCDEFGHIJKLMNOPQRSTUVWXYZabcdefghijklmnopqrstuvwxyz0123456789+/"

\* encodings[n]
Enc(n) == Ch(encodings, n + 1)

\* the byte values of the characters lo..hi of a byte buffer, by halves
RECURSIVE BytesRange(_, _, _)
BytesRange(buffer, lo, hi) ==
    IF lo > hi THEN <<>>
    ELSE IF lo = hi THEN ByteValues(Ch(buffer, lo))
    ELSE BytesRange(buffer, lo, (lo + hi) \div 2) \o
         BytesRange(buffer, (lo + hi) \div 2 + 1, hi)

\* the byte values of a byte buffer
Bytes(buffer) == BytesRange(buffer, 1, Len(buffer))

\* the four characters the loop appends for the bytes a, b, c of a chunk
Quad(a, b, c) ==
    Enc(a \div 4) \o Enc((a % 4) * 16 + b \div 16) \o
    Enc((b % 16) * 4 + c \div 64) \o Enc(c % 64)

\* the four characters for the three bytes at index 3 * (k - 1) of bytes
Chunk(bytes, k) == Quad(bytes[3 * k - 2], bytes[3 * k - 1], bytes[3 * k])

\* the characters appended for one remaining byte, and for two
Remainder1(a) == Enc(a \div 4) \o Enc((a % 4) * 16) \o "=="
Remainder2(a, b) ==
    Enc(a \div 4) \o Enc((a % 4) * 16 + b \div 16) \o Enc((b % 16) * 4) \o "="

\* the characters of the chunks lo..hi of bytes, by halves
RECURSIVE ChunkRange(_, _, _)
ChunkRange(bytes, lo, hi) ==
    IF lo > hi THEN ""
    ELSE IF lo = hi THEN Chunk(bytes, lo)
    ELSE ChunkRange(bytes, lo, (lo + hi) \div 2) \o
         ChunkRange(bytes, (lo + hi) \div 2 + 1, hi)

\* the base64 text of the byte values bytes, whose byteLength is
\* Len(bytes), byteRemainder Len(bytes) % 3 and mainLength the rest
Base64(bytes) ==
    ChunkRange(bytes, 1, Len(bytes) \div 3) \o
    (IF Len(bytes) % 3 = 1
     THEN Remainder1(bytes[Len(bytes)])
     ELSE IF Len(bytes) % 3 = 2
     THEN Remainder2(bytes[Len(bytes) - 1], bytes[Len(bytes)])
     ELSE "")

\* base64ArrayBuffer(arrayBuffer)
base64ArrayBuffer(arrayBuffer) == Base64(Bytes(arrayBuffer))

(* ----------------------------------------------------------------------- *)
(* CrmServerHandler.validateResponse                                       *)
(* ----------------------------------------------------------------------- *)
RouteErrorText == "ValueError: No possible route found for incoming message"
RouteErrorReason ==
    "Mailbox not found or no valid route. Please check the mail alias or CRM configuration."

\* the console line that carries the whole response body
FullResponseLine(data) ==
    "[CrmServerHandler] Full response data (base64): " \o
    base64ArrayBuffer(TextEncode(data))

\* whether lit, written in lower case, occurs in s at position i when case
\* is ignored (the i flag of the regular expressions)
MatchNoCase(s, i, lit) ==
    /\ i >= 1
    /\ i + Len(lit) - 1 <= Len(s)
    /\ ToLowerCase(SubSeq(s, i, i + Len(lit) - 1)) = lit

\* the first position >= from where lit occurs in s without regard to case,
\* 0 when there is none
IndexOfNoCase(s, lit, from) ==
    MinOr({i \in from..(Len(s) - Len(lit) + 1) : MatchNoCase(s, i, lit)}, 0)

\* the position after white space and then lit (compared without case) from
\* position i of data, 0 when lit does not follow or i is 0
AfterLit(data, i, lit) ==
    IF i # 0 /\ MatchNoCase(data, SkipWs(data, i), lit)
    THEN SkipWs(data, i) + Len(lit)
    ELSE 0

\* where the group of faultStringRegex starts when the match starts with the
\* <name> at position i, 0 when the regular expression does not match there
FaultStart(data, i) ==
    AfterLit(data,
      AfterLit(data,
        AfterLit(data,
          AfterLit(data, AfterLit(data, i + Len("<name>"), "faultstring"),
                   "</name>"),
          "<value>"),
        "<string>"),
      "")

\* faultString for the leftmost match, at position i, or for no match (0):
\* the lazy group ends before the white space that precedes the first
\* </string> and is trimmed
FaultAt(data, i) ==
    IF i = 0 THEN "Unknown fault"
    ELSE Trim(SubSeq(data, FaultStart(data, i),
                     IndexOfNoCase(data, "</string>", FaultStart(data, i)) - 1))

\* data.match(faultStringRegex): the faultString, or 'Unknown fault'
FaultString(data) ==
    FaultAt(data,
            MinOr({i \in 1..Len(data) :
                     /\ MatchNoCase(data, i, "<name>")
                     /\ FaultStart(data, i) # 0
                     /\ IndexOfNoCase(data, "</string>", FaultStart(data, i)) # 0}, 0))

\* whether /\s*(\d+)\s*<\/int>/ matches from the position first, which
\* follows an <int> and white space
IntAt(data, first) ==
    /\ SkipDigits(data, first) > first
    /\ AfterLit(data, SkipDigits(data, first), "</int>") # 0

\* the group of the match whose <int> is at position i, "" for no match (0)
IntFrom(data, i) ==
    IF i = 0 THEN ""
    ELSE SubSeq(data, SkipWs(data, i + Len("<int>")),
                SkipDigits(data, SkipWs(data, i + Len("<int>"))) - 1)

\* data.match(/<int>\s*(\d+)\s*<\/int>/i): the digits of the leftmost match,
\* "" when there is none
IntMatch(data) ==
    IntFrom(data,
            MinOr({i \in 1..Len(data) :
                     /\ MatchNoCase(data, i, "<int>")
                     /\ IntAt(data, SkipWs(data, i + Len("<int>")))}, 0))

\* whether /(\d)\s*<\/boolean>/ matches at the position first, which follows
\* a <boolean> and white space
BooleanAt(data, first) ==
    /\ first <= Len(data)
    /\ IsDigit(Ch(data, first))
    /\ AfterLit(data, first + 1, "</boolean>") # 0

\* the group of the match whose <boolean> is at position i, "" for none (0)
BooleanFrom(data, i) ==
    IF i = 0 THEN "" ELSE Ch(data, SkipWs(data, i + Len("<boolean>")))

\* data.match(/<boolean>\s*(\d)\s*<\/boolean>/i): the digit of the leftmost
\* match, "" when there is none
BooleanMatch(data) ==
    BooleanFrom(data,
                MinOr({i \in 1..Len(data) :
                         /\ MatchNoCase(data, i, "<boolean>")
                         /\ BooleanAt(data, SkipWs(data, i + Len("<boolean>")))}, 0))

\* the number the first i characters of a string of decimal digits write
RECURSIVE ParseDigits(_, _)
ParseDigits(digits, i) ==
    IF i = 0 THEN 0
    ELSE 10 * ParseDigits(digits, i - 1) +
         (CHOOSE d \in 0..9 : Ch(Digits, d + 1) = Ch(digits, i))

\* parseInt(digits, 10) of a string of decimal digits
ParseInt(digits) == ParseDigits(digits, Len(digits))

\* what validateResponse does: whether it throws, the message of the Error
\* it throws, and the console lines it writes
Returns(console) == [threw |-> FALSE, message |-> "", console |-> console]
Throws(message, console) == [threw |-> TRUE, message |-> message, console |-> console]

\* the branch of validateResponse for a response that is not ok
HttpError(line, data) == Throws(line, <<line, FullResponseLine(data)>>)

\* A fault branch that takes every fault string naming the missing route for
\* the route error, with or without its 'ValueError: '; the amended C6 does
\* not hold of it.
FaultOutcomeAnyRoute(data, faultString) ==
    IF Includes(faultString, "No possible route found for incoming message")
    THEN Throws(RouteErrorReason, <<"CRM route error: " \o faultString>>)
    ELSE Throws("CRM Error: " \o faultString,
                <<"Fault response from API: " \o faultString, FullResponseLine(data)>>)

\* the branch of validateResponse for a fault, once faultString is known
FaultOutcome(data, faultString) ==
    IF Includes(faultString, RouteErrorText)
    THEN Throws(RouteErrorReason, <<"CRM route error: " \o faultString>>)
    ELSE Throws("CRM Error: " \o faultString,
                <<"Fault response from API: " \o faultString, FullResponseLine(data)>>)

\* the branch of validateResponse for an integer, once recordId is parsed
RecordOutcome(recordId) ==
    IF recordId > 0
    THEN Returns(<<"Successfully processed. Record ID: " \o ToString(recordId)>>)
    ELSE Throws("Invalid record ID received from CRM.",
                <<"Received non-positive record ID from CRM.">>)

\* the branch of validateResponse for a boolean
BooleanOutcome(booleanValue) ==
    IF booleanValue = "0"
    THEN Throws("Email rejected by CRM.",
                <<"CRM response received. Boolean value: 0",
                  "Email was rejected by CRM with boolean value 0.">>)
    ELSE Returns(<<"CRM response received. Boolean value: " \o booleanValue,
                   "Email accepted by CRM with boolean true.">>)

\* A last branch that does not write the response body; C8 does not hold of
\* it.
MatchOutcomeQuiet(data, intMatch, booleanMatch) ==
    IF intMatch # "" THEN RecordOutcome(ParseInt(intMatch))
    ELSE IF booleanMatch # "" THEN BooleanOutcome(booleanMatch)
    ELSE Throws("Unexpected response format from CRM.",
                <<"[CrmServerHandler] Unexpected response format from CRM.">>)

\* validateResponse after the fault test, on the two matches ("" is null)
MatchOutcome(data, intMatch, booleanMatch) ==
    IF intMatch # "" THEN RecordOutcome(ParseInt(intMatch))
    ELSE IF booleanMatch # "" THEN BooleanOutcome(booleanMatch)
    ELSE Throws("Unexpected response format from CRM.",
                <<"[CrmServerHandler] Unexpected response format from CRM.",
                  FullResponseLine(data)>>)

\* A validation that looks at the body before the status; C5 does not hold
\* of it.
validateResponseBodyFirst(response, data) ==
    IF Includes(data, "<fault>") THEN FaultOutcome(data, FaultString(data))
    ELSE IF IntMatch(data) # "" \/ BooleanMatch(data) # ""
    THEN MatchOutcome(data, IntMatch(data), BooleanMatch(data))
    ELSE IF ~response.ok
    THEN HttpError("HTTP Error: " \o ToString(response.status) \o " " \o
                   response.statusText, data)
    ELSE MatchOutcome(data, "", "")

\* validateResponse(response, data)
validateResponse(response, data) ==
    IF ~response.ok
    THEN HttpError("HTTP Error: " \o ToString(response.status) \o " " \o
                   response.statusText, data)
    ELSE IF Includes(data, "<fault>") THEN FaultOutcome(data, FaultString(data))
    ELSE MatchOutcome(data, IntMatch(data), BooleanMatch(data))

(* ----------------------------------------------------------------------- *)
(* CrmServerHandler.sendEmail and the backend                              *)
(* ----------------------------------------------------------------------- *)
\* x || fallback for an optional string of the environment: a variable that
\* is not set (no key, or written "" here) and the empty string both give
\* the fallback
OrDefault(env, key, fallback) ==
    IF key \in DOMAIN env /\ env[key] # "" THEN env[key] ELSE fallback

\* the options DeliveryProcessor.process builds from the environment
CrmOptions(env) ==
    [database |-> OrDefault(env, "ODOO_DATABASE", "company"),
     userid   |-> OrDefault(env, "ODOO_USERID", "2"),
     password |-> OrDefault(env, "ODOO_PASSWORD", "password"),
     host     |-> OrDefault(env, "ODOO_HOST", "crm.example.com"),
     port     |-> OrDefault(env, "ODOO_PORT", "443"),
     protocol |-> OrDefault(env, "ODOO_PROTOCOL", "https")]

\* the url of sendEmail
RequestUrl(options) ==
    options.protocol \o "://" \o options.host \o ":" \o options.port \o "/xmlrpc/2/object"

\* the xml of sendEmail
RequestXml(options, rawEmail) ==
    "<?xml version=\"1.0\"?>\n" \o
    "<methodCall>\n" \o
    "  <methodName>execute_kw</methodName>\n" \o
    "  <params>\n" \o
    "    <param><value><string>" \o options.database \o "</string></value></param>\n" \o
    "    <param><value><int>" \o options.userid \o "</int></value></param>\n" \o
    "    <param><value><string>" \o options.password \o "</string></value></param>\n" \o
    "    <param><value><string>mail.thread</string></value></param>\n" \o
    "    <param><value><string>message_process</string></value></param>\n" \o
    "    <param>\n" \o
    "      <value>\n" \o
    "        <array>\n" \o
    "          <data>\n" \o
    "            <value><boolean>0</boolean></value>\n" \o
    "            <value><base64>" \o base64ArrayBuffer(rawEmail) \o "</base64></value>\n" \o
    "          </data>\n" \o
    "        </array>\n" \o
    "      </value>\n" \o
    "    </param>\n" \o
    "    <param><value><struct></struct></value></param>\n" \o
    "  </params>\n" \o
    "</methodCall>"

\* the request fetch() is called with
Request(options, rawEmail) ==
    [url |-> RequestUrl(options), method |-> "POST",
     contentType |-> "application/xml", body |-> RequestXml(options, rawEmail)]

\* What the backend does with the one request of a run: fetch() rejects
\* (fetchError), or it resolves to a response whose text() rejects
\* (textError) or resolves to data.  response.ok is status in 200..299.
NetworkError(errorMessage) ==
    [fetchError |-> TRUE, textError |-> FALSE, errorMessage |-> errorMessage,
     ok |-> FALSE, status |-> 0, statusText |-> "", data |-> ""]
BodyError(status, statusText, errorMessage) ==
    [fetchError |-> FALSE, textError |-> TRUE, errorMessage |-> errorMessage,
     ok |-> status \in 200..299, status |-> status, statusText |-> statusText, data |-> ""]
Response(status, statusText, data) ==
    [fetchError |-> FALSE, textError |-> FALSE, errorMessage |-> "",
     ok |-> status \in 200..299, status |-> status, statusText |-> statusText, data |-> data]

\* the try block of sendEmail against a backend: what validateResponse does,
\* or the error of fetch() or of response.text()
CrmExchange(backend) ==
    IF backend.fetchError \/ backend.textError
    THEN Throws(backend.errorMessage, <<>>)
    ELSE validateResponse(backend, backend.data)

\* sendEmail(rawEmail) after the request is sent: the catch block rethrows
\* every error as 'Unable to communicate with CRM server: ...'
Rethrow(r) ==
    IF r.threw
    THEN Throws("Unable to communicate with CRM server: " \o r.message, r.console)
    ELSE r
sendEmail(backend) == Rethrow(CrmExchange(backend))

(* ----------------------------------------------------------------------- *)
(* The processors as steps of the context                                  *)
(* ----------------------------------------------------------------------- *)
\* an optional field of the context: null, or a value
Null == <<>>
Some(v) == <<v>>

\* streamToArrayBuffer(message.raw, message.rawSize): the stream is the
\* sequence of its chunks; reader.read() throws when the stream is marked
\* failing, and result.set throws a RangeError when a chunk does not fit in
\* the rawSize bytes of the buffer.  Bytes the stream does not fill stay 0.
StreamBytes(message) == Join(message.raw, "")
StreamThrows(message) ==
    message.readError \/ Len(Bytes(StreamBytes(message))) > message.rawSize
RECURSIVE Zeros(_)
Zeros(n) == IF n <= 0 THEN "" ELSE NUL \o Zeros(n - 1)
streamToArrayBuffer(message) ==
    StreamBytes(message) \o Zeros(message.rawSize - Len(Bytes(StreamBytes(message))))

\* ParsingProcessor.process(): the result and the context fields it writes
ParsedBuffer(arrayBuffer) ==
    [result |-> Continue, rawEmail |-> Some(arrayBuffer),
     parsedEmail |-> Some(parseEmail(arrayBuffer))]
\* A parsing stage that takes whatever the stream gave and goes on; C19 does
\* not hold of it.
ParsingProcessorLenient(message) ==
    ParsedBuffer(streamToArrayBuffer(message))

ParsingProcessor(message) ==
    IF StreamThrows(message)
    THEN [result |-> Reject("Unable to process email data."),
          rawEmail |-> Null, parsedEmail |-> Null]
    ELSE ParsedBuffer(streamToArrayBuffer(message))

\* DomainCollapseProcessor.process(): the parsedEmail it leaves
DomainCollapseProcessor(env, parsed) ==
    IF parsed = Null THEN parsed
    ELSE Some([headers |-> DomainCollapseHeaders(
                               parsed[1].headers,
                               OrDefault(env, "DOMAIN_COLLAPSE_MAPPING", "")),
               body |-> parsed[1].body])

\* SubaddressingProcessor.process(): the parsedEmail it leaves
SubaddressingProcessor(parsed) ==
    IF parsed = Null THEN parsed
    ELSE Some([headers |-> SubaddressingHeaders(parsed[1].headers),
               body |-> parsed[1].body])

\* PreDeliveryProcessor.process(): the result and the finalRawEmail it writes
PreDeliveryProcessor(parsed) ==
    IF parsed = Null
    THEN [result |-> Reject("No parsed email to deliver."), finalRawEmail |-> Null]
    ELSE [result |-> Continue,
          finalRawEmail |-> Some(reSerialiseEmail(parsed[1].headers, parsed[1].body))]

\* DeliveryProcessor.process() once sendEmail has been called: the result
DeliveryResult(sent) ==
    IF sent.threw THEN Reject("Unable to deliver to CRM. " \o sent.message)
    ELSE Continue

(* ----------------------------------------------------------------------- *)
(* State                                                                   *)
(* ----------------------------------------------------------------------- *)
VARIABLES
    message,        \* the inbound message: headers, raw stream, rawSize
    env,            \* the environment variables that are set
    backend,        \* what the CRM server does with a request
    rawEmail,       \* context.rawEmail
    parsedEmail,    \* context.parsedEmail
    finalRawEmail,  \* context.finalRawEmail
    index,          \* the position of the loop of email() in processors
    state,          \* "running", "rejected" (email() returned after
                    \* setReject) or "completed" (the loop ran to its end)
    rejects,        \* the reasons message.setReject was called with
    fetches,        \* the requests fetch() was called with
    console,        \* the lines validateResponse wrote to the console
    trace           \* per processor entered, its name, how it ended and the
                    \* rejectReason of the result it returned ("" for none)

vars == <<message, env, backend, rawEmail, parsedEmail, finalRawEmail, index,
          state, rejects, fetches, console, trace>>

\* A pipeline that strips subaddress tags before it collapses domains; C29
\* does not hold of it.
processorsTagFirst ==
    << "SpamCheckProcessor", "ParsingProcessor", "SubaddressingProcessor",
       "DomainCollapseProcessor", "PreDeliveryProcessor", "DeliveryProcessor" >>

\* const processors = [...]
processors ==
    << "SpamCheckProcessor", "ParsingProcessor", "DomainCollapseProcessor",
       "SubaddressingProcessor", "PreDeliveryProcessor", "DeliveryProcessor" >>

DefaultRejectReason == "Message rejected by processor."

\* result.rejectReason || 'Message rejected by processor.'
RejectReasonOf(result) ==
    IF "rejectReason" \in DOMAIN result /\ result.rejectReason # ""
    THEN result.rejectReason
    ELSE DefaultRejectReason

\* A loop that calls setReject and goes on to the next processor; C1 does
\* not hold of it.
RunnerReturnedGoesOn(result) ==
    /\ trace' = Append(trace, [processor |-> processors[index],
                               ended |-> IF result.canContinue THEN "continue"
                                         ELSE "reject",
                               reason |-> IF "rejectReason" \in DOMAIN result
                                          THEN result.rejectReason ELSE ""])
    /\ rejects' = IF result.canContinue THEN rejects
                  ELSE Append(rejects, RejectReasonOf(result))
    /\ index' = index + 1
    /\ state' = IF index + 1 > Len(processors) THEN "completed" ELSE "running"

\* One iteration of the loop of email() for a processor that returned
\* result: a rejection calls setReject and returns, anything else moves on.
RunnerReturned(result) ==
    /\ trace' = Append(trace, [processor |-> processors[index],
                               ended |-> IF result.canContinue THEN "continue"
                                         ELSE "reject",
                               reason |-> IF "rejectReason" \in DOMAIN result
                                          THEN result.rejectReason ELSE ""])
    /\ IF ~result.canContinue
       THEN /\ rejects' = Append(rejects, RejectReasonOf(result))
            /\ state' = "rejected"
            /\ index' = index
       ELSE /\ rejects' = rejects
            /\ index' = index + 1
            /\ state' = IF index + 1 > Len(processors) THEN "completed"
                        ELSE "running"

\* A catch block that rejects the message; C2 does not hold of it.
RunnerCaughtRejects ==
    /\ trace' = Append(trace, [processor |-> processors[index], ended |-> "fault",
                               reason |-> ""])
    /\ rejects' = Append(rejects, DefaultRejectReason)
    /\ index' = index
    /\ state' = "rejected"

\* One iteration of the loop of email() for a processor that threw: the
\* catch block logs the error and the loop moves on.
RunnerCaught ==
    /\ trace' = Append(trace, [processor |-> processors[index], ended |-> "fault",
                               reason |-> ""])
    /\ rejects' = rejects
    /\ index' = index + 1
    /\ state' = IF index + 1 > Len(processors) THEN "completed" ELSE "running"

\* A loop position that is entered again after the run was rejected, so that
\* the processor that rejected is tried once more; C23 does not hold of it.
AtAgain(name) == index <= Len(processors) /\ processors[index] = name

\* the processor at the loop position is name
At(name) == state = "running" /\ index <= Len(processors) /\ processors[index] = name

(* ----------------------------------------------------------------------- *)
(* Actions: one per processor of the loop                                  *)
(* ----------------------------------------------------------------------- *)
SpamCheck ==
    /\ At("SpamCheckProcessor")
    /\ \/ RunnerReturned(SpamCheckProcessor(message))
       \/ RunnerCaught
    /\ UNCHANGED <<message, env, backend, rawEmail, parsedEmail, finalRawEmail,
                   fetches, console>>

\* a fault of the parsing processor is one of parseEmail: the stream has
\* been read and stored by then
Parsed(done) ==
    /\ RunnerReturned(done.result)
    /\ rawEmail' = done.rawEmail
    /\ parsedEmail' = done.parsedEmail

Parsing ==
    /\ At("ParsingProcessor")
    /\ \/ Parsed(ParsingProcessor(message))
       \/ /\ ~StreamThrows(message)
          /\ RunnerCaught
          /\ rawEmail' = Some(streamToArrayBuffer(message))
          /\ parsedEmail' = parsedEmail
    /\ UNCHANGED <<message, env, backend, finalRawEmail, fetches, console>>

DomainCollapse ==
    /\ At("DomainCollapseProcessor")
    /\ \/ /\ RunnerReturned(Continue)
          /\ parsedEmail' = DomainCollapseProcessor(env, parsedEmail)
       \/ /\ RunnerCaught
          /\ parsedEmail' = parsedEmail
    /\ UNCHANGED <<message, env, backend, rawEmail, finalRawEmail, fetches, console>>

Subaddressing ==
    /\ At("SubaddressingProcessor")
    /\ \/ /\ RunnerReturned(Continue)
          /\ parsedEmail' = SubaddressingProcessor(parsedEmail)
       \/ /\ RunnerCaught
          /\ parsedEmail' = parsedEmail
    /\ UNCHANGED <<message, env, backend, rawEmail, finalRawEmail, fetches, console>>

Serialised(done) ==
    /\ RunnerReturned(done.result)
    /\ finalRawEmail' = done.finalRawEmail

PreDelivery ==
    /\ At("PreDeliveryProcessor")
    /\ \/ Serialised(PreDeliveryProcessor(parsedEmail))
       \/ /\ parsedEmail # Null
          /\ RunnerCaught
          /\ finalRawEmail' = finalRawEmail
    /\ UNCHANGED <<message, env, backend, rawEmail, parsedEmail, fetches, console>>

\* The delivery processor returns a rejection when there is nothing to
\* deliver; otherwise sendEmail calls fetch, which sends the request, and
\* the processor waits: the console, the rejection and the position of the
\* loop change only when the exchange has given its answer, in a later
\* step.  A fault of this processor is one raised outside its try block,
\* before sendEmail is called, or one raised in its catch block, by
\* console.error, after sendEmail has thrown: what validateResponse wrote is
\* on the console by then, and the loop of email() catches the fault.
Sent(sent) ==
    /\ console' = console \o sent.console
    /\ RunnerReturned(DeliveryResult(sent))

Delivery ==
    /\ At("DeliveryProcessor")
    /\ \/ /\ finalRawEmail = Null
          /\ RunnerReturned(Reject("No final email data to deliver."))
          /\ UNCHANGED <<fetches, console>>
       \/ /\ finalRawEmail # Null
          /\ fetches = <<>>
          /\ fetches' = Append(fetches, Request(CrmOptions(env), finalRawEmail[1]))
          /\ UNCHANGED <<index, state, rejects, console, trace>>
       \/ /\ fetches # <<>>
          /\ Sent(sendEmail(backend))
          /\ UNCHANGED fetches
       \/ /\ fetches # <<>>
          /\ sendEmail(backend).threw
          /\ console' = console \o sendEmail(backend).console
          /\ RunnerCaught
          /\ UNCHANGED fetches
       \/ /\ finalRawEmail # Null
          /\ fetches = <<>>
          /\ RunnerCaught
          /\ UNCHANGED <<fetches, console>>
    /\ UNCHANGED <<message, env, backend, rawEmail, parsedEmail, finalRawEmail>>

(* ----------------------------------------------------------------------- *)
(* Inputs                                                                  *)
(* ----------------------------------------------------------------------- *)
\* the first value of the header called name in a list of <<name, value>>
\* pairs, "" when there is none: what the platform's message.headers holds
FirstValue(pairs, name) ==
    IF \A i \in 1..Len(pairs) : ToLowerCase(pairs[i][1]) # name THEN ""
    ELSE pairs[Min({i \in 1..Len(pairs) : ToLowerCase(pairs[i][1]) = name})][2]

\* the bytes of a message with the given header lines, line terminator and body
RawOf(pairs, eol, body) ==
    Join([i \in 1..Len(pairs) |-> pairs[i][1] \o ": " \o pairs[i][2]], eol)
        \o eol \o eol \o body

\* An inbound message whose stream delivers its bytes in two chunks.  slack
\* is rawSize minus the number of bytes of the stream; lines keeps the
\* header lines the bytes were written from.
MessageOf(pairs, bytes, slack, readError) ==
    [headers |-> [from |-> FirstValue(pairs, "from"),
                  subject |-> FirstValue(pairs, "subject")],
     lines |-> pairs,
     raw |-> <<SubSeq(bytes, 1, Len(bytes) \div 2),
               SubSeq(bytes, Len(bytes) \div 2 + 1, Len(bytes))>>,
     rawSize |-> Len(Bytes(bytes)) + slack,
     readError |-> readError]
Message(pairs, eol, body, slack, readError) ==
    MessageOf(pairs, RawOf(pairs, eol, body), slack, readError)

CleanPairs ==
    << <<"From", "Alice <alice@example.org>">>,
       <<"To", "Bob <bob+news@example.com>, carol@example.org">>,
       <<"Subject", "Hello">> >>

\* the messages of the pipeline runs
Messages ==
    { Message(CleanPairs, "\r\n", "Hi there\r\n", 0, FALSE),
      Message(CleanPairs, "\n", "Hi there\n", 2, FALSE),
      Message(CleanPairs, "\r\n", "Hi there\r\n", 0, TRUE),
      Message(CleanPairs, "\r\n", "Hi there\r\n", 0 - 1, FALSE),
      Message(<< <<"From", "\"Test\" <spam@example.com>">>, <<"To", "bob@example.com">>,
                 <<"Subject", "You are a winner">> >>, "\r\n", "x", 0, FALSE),
      Message(<< <<"From", "XyZaBcDe <xyzabcde@gmail.com>">>, <<"To", "bob@example.com">>,
                 <<"Subject", "Hello">> >>, "\r\n", "x", 0, FALSE),
      Message(<< <<"From", "<dave@gmail.com>">>, <<"To", "bob@example.com">>,
                 <<"Subject", "Hello">> >>, "\r\n", "x", 0, FALSE),
      Message(<< <<"From", "carol@example.net">>, <<"To", "bob@example.com">>,
                 <<"Subject", "Quick Discussion">> >>, "\r\n", "x", 0, FALSE) }

Env(mapping, database, password) ==
    [DOMAIN_COLLAPSE_MAPPING |-> mapping, ODOO_DATABASE |-> database,
     ODOO_USERID |-> "", ODOO_PASSWORD |-> password, ODOO_HOST |-> "",
     ODOO_PORT |-> "", ODOO_PROTOCOL |-> ""]

Envs ==
    { Env("", "", ""),
      Env("example.org=sales@target.test", "prod", "s3cret"),
      Env("", "crm</string></value></param><param><value><string>x", "p&<w>") }

\* the text of a methodResponse around the given content
Body(content) == "<methodResponse>" \o content \o "</methodResponse>"

\* a fault member carrying a faultString
FaultMember(text) ==
    "<member><name>faultString</name><value><string>" \o text \o
    "</string></value></member>"

\* the backends of the pipeline runs
Backends ==
    { NetworkError("Network connection lost."),
      BodyError(200, "OK", "The body stream was disturbed."),
      Response(200, "OK", Body("<value><int>5</int></value>")),
      Response(200, "OK", Body("<value><int>0</int></value>")),
      Response(200, "OK", Body("<value><boolean>0</boolean></value>")),
      Response(200, "OK", Body("<value><boolean>1</boolean></value>")),
      Response(200, "OK", Body("<fault>" \o FaultMember(RouteErrorText) \o "</fault>")),
      Response(200, "OK", Body("<fault>" \o FaultMember("Access Denied") \o "</fault>")),
      Response(200, "OK", "<html>gateway</html>"),
      Response(502, "Bad Gateway", Body("<value><int>5</int></value>")) }

\* the elements a response body of the classification runs is made of
Parts ==
    { "<fault>",
      FaultMember(RouteErrorText \o "\n"),
      FaultMember("No possible route found for incoming message"),
      FaultMember(" Access Denied "),
      "<value><int>5</int></value>",
      "<value><int>0</int></value>",
      "<value><int>-5</int></value>",
      "<value><INT> 12 </INT></value>",
      "<value><boolean>0</boolean></value>",
      "<value><boolean> 1</boolean></value>" }

\* the concatenations of at most n parts
RECURSIVE Contents(_)
Contents(n) ==
    IF n = 0 THEN {""}
    ELSE Contents(n - 1) \cup {c \o p : c \in Contents(n - 1), p \in Parts}

\* the backends of the classification runs: a status and a body of at most
\* n parts, or an error of fetch() or of response.text()
AllBackends(n) ==
    {Response(st[1], st[2], Body(c)) :
        st \in {<<200, "OK">>, <<404, "Not Found">>}, c \in Contents(n)}
    \cup {NetworkError("Network connection lost."),
          BodyError(200, "OK", "The body stream was disturbed.")}

\* n times the character c
RECURSIVE Rep(_, _)
Rep(c, n) == IF n <= 0 THEN "" ELSE c \o Rep(c, n - 1)

\* the sender names of the spam runs, of at most n characters: u uppercase
\* letters, l lowercase letters and d digits, and one name of mixed case, as
\* they are, in double quotes, or with a space after the first character
NameVariants(sized) ==
    sized \cup {"\"" \o n \o "\"" : n \in sized}
          \cup {Ch(n, 1) \o " " \o SubSeq(n, 2, Len(n)) : n \in sized \ {""}}
SpamNames(n) ==
    NameVariants({name \in {Rep("X", u) \o Rep("y", l) \o Rep("7", d) :
                               u \in 0..n, l \in 0..n, d \in 0..2} :
                    Len(name) <= n} \cup {"XyZaBcDe"})

\* the From headers of the spam runs
SpamFroms(n, addresses) ==
    {name \o " <" \o a \o ">" : name \in SpamNames(n), a \in addresses}
    \cup addresses

\* the messages of the spam runs
SpamMessages(n) ==
    {Message(<< <<"From", f>>, <<"Subject", sb>> >>, "\r\n", "x", 0, FALSE) :
        f \in SpamFroms(n, { "xyzabcde@gmail.com", "Someone@GMail.com",
                              "spam@example.com", "Blocked@Example.COM",
                              "alice@example.org" }),
        sb \in {"", "Hello", "Our Market Research WINNER"}}

\* the addresses of the header runs, in the order the lists take them
AddressPool ==
    << "bob+news@example.com", "eve+a+b@example.net", "Alice <alice@example.org>",
       "carol@Example.ORG", "\"Dan, D\" <dan+x@b@example.org>" >>

\* the address lists of at most n addresses: runs of the pool from each of
\* its positions, joined by sep
AddressLists(n, sep) ==
    {Join([i \in 1..k |-> AddressPool[((r + i - 2) % Len(AddressPool)) + 1]], sep) :
        r \in 1..Len(AddressPool), k \in 1..n}

\* the header lines of the header runs around an address list v
HeaderLines(v) ==
    { << <<"From", "carol@example.net">>, <<"To", v>>, <<"Subject", "Hello">> >>,
      << <<"From", "carol@example.net">>, <<"To", v>>,
         <<"To", "zed+late@example.com">>, <<"Subject", "Hello">> >>,
      << <<"From", "carol@example.net">>, <<"Cc", v>>, <<"Subject", "Hello">>,
         <<"X-Note", "  see bob+x@example.org \f">> >>,
      << <<"From", "carol@example.net">>, <<"To", v>>,
         <<"Bcc", "alice@example.org">> >>,
      << <<"From", "carol@example.net">>, <<"TO", v>>,
         <<"SUBJECT", "Re: [NEWS] update">>, <<"Subject", "second">> >>,
      << <<"From", "carol@example.net">>, <<"Reply-To", v>>,
         <<"To", "bob+newsletter@example.com">>, <<"Cc", "Bob <bob@constructor>">>,
         <<"Subject", "Hello">> >> }

\* the messages of the header runs
HeaderMessages(n) ==
    {Message(lines, eol, "Hi there" \o eol, 0, FALSE) :
        lines \in UNION {HeaderLines(v) : v \in AddressLists(n, ", ") \cup
                                                AddressLists(n, ",")},
        eol \in {"\r\n", "\n"}}

\* the lines a header section of the parser runs is made of: headers with
\* and without a space after the colon, a line without a colon, a line that
\* starts with a colon, and lines that start with a space or a tab
LinePool ==
    << "From: carol@example.net", "Subject:Hello", "X-Odd", ": orphan",
       " folded text", "\tmore: x" >>

\* the header sections of at most n lines
RECURSIVE Heads(_)
Heads(n) ==
    IF n = 0 THEN {<<>>}
    ELSE Heads(n - 1) \cup
         {Append(h, LinePool[k]) : h \in {g \in Heads(n - 1) : Len(g) = n - 1},
                                    k \in 1..Len(LinePool)}

\* the bodies of the parser runs: LF and CRLF line ends, no final line end,
\* an empty line first, a byte order mark first, and no body
Bodies ==
    { "", "Hi there\n", "one\r\ntwo\r\n", "one\n\ntwo", "\nafter", BOM \o "marked\n" }

\* An inbound message given by the lines of its header section, the line
\* terminator after each of them and after the separator, and its body;
\* lines and body keep what the bytes were written from.
RawMessage(lines, eol, body) ==
    [headers |-> [from |-> "carol@example.net", subject |-> ""],
     lines |-> lines,
     body |-> body,
     raw |-> <<Join([i \in 1..Len(lines) |-> lines[i] \o eol], ""), eol \o body>>,
     rawSize |-> Len(Bytes(Join([i \in 1..Len(lines) |-> lines[i] \o eol], "")
                           \o eol \o body)),
     readError |-> FALSE]

\* the messages of the parser runs: every header section with one body, and
\* every body with no header and with one header
RawMessages(n) ==
    {RawMessage(h, eol, "Hi there" \o eol) : h \in Heads(n), eol \in {"\r\n", "\n"}}
    \cup {RawMessage(h, eol, body) :
            h \in {<<>>, <<LinePool[1]>>}, eol \in {"\r\n", "\n"}, body \in Bodies}

\* the domain-collapse configurations of the header runs
Mappings ==
    { "", "  ", "nonsense; =x@y.test, z.test=",
      "example.org=sales@target.test",
      "EXAMPLE.org = Sales@Target.test ; b=t@b.test",
      "example.com=in@crm.test,example.net=in@crm.test,,",
      "__proto__=x@y.test" }

(* ----------------------------------------------------------------------- *)
(* Specifications                                                          *)
(* ----------------------------------------------------------------------- *)
\* the state after construction of the context in email()
Fresh ==
    /\ rawEmail = Null
    /\ parsedEmail = Null
    /\ finalRawEmail = Null
    /\ index = 1
    /\ state = "running"
    /\ rejects = <<>>
    /\ fetches = <<>>
    /\ console = <<>>
    /\ trace = <<>>

\* a run of the whole pipeline
Init ==
    /\ message \in Messages
    /\ env \in Envs
    /\ backend \in Backends
    /\ Fresh

Next ==
    \/ SpamCheck
    \/ Parsing
    \/ DomainCollapse
    \/ Subaddressing
    \/ PreDelivery
    \/ Delivery

Spec == Init /\ [][Next]_vars

\* the spam predicate on its own, over the From and Subject headers
InitSpam ==
    /\ message \in SpamMessages(MaxName)
    /\ env = Env("", "", "")
    /\ backend = Response(200, "OK", Body("<value><int>5</int></value>"))
    /\ Fresh

SpecSpam == InitSpam /\ [][SpamCheck]_vars

\* the delivery of one message, over the answers of the backend: the state
\* the first five processors leave when none of them rejects or throws
CleanMessage == Message(CleanPairs, "\r\n", "Hi there\r\n", 0, FALSE)
CleanParsed ==
    SubaddressingProcessor(
        DomainCollapseProcessor(Env("", "", ""),
                                ParsingProcessor(CleanMessage).parsedEmail))
InitDelivery ==
    /\ message = CleanMessage
    /\ env = Env("", "", "")
    /\ backend \in AllBackends(MaxParts)
    /\ rawEmail = ParsingProcessor(CleanMessage).rawEmail
    /\ parsedEmail = CleanParsed
    /\ finalRawEmail = PreDeliveryProcessor(CleanParsed).finalRawEmail
    /\ index = 6
    /\ state = "running"
    /\ rejects = <<>>
    /\ fetches = <<>>
    /\ console = <<>>
    /\ trace = [i \in 1..5 |-> [processor |-> processors[i], ended |-> "continue",
                                 reason |-> ""]]

SpecDelivery == InitDelivery /\ [][Delivery]_vars

\* the stages between the spam check and the delivery, over the header
\* lines of the message and the domain-collapse configuration: the state
\* the spam check leaves when it returns continue
InitHeaders ==
    /\ message \in {m \in HeaderMessages(MaxAddrs) : SpamCheckProcessor(m).canContinue}
    /\ env \in {Env(mapping, "", "") : mapping \in Mappings}
    /\ backend = Response(200, "OK", Body("<value><int>5</int></value>"))
    /\ rawEmail = Null
    /\ parsedEmail = Null
    /\ finalRawEmail = Null
    /\ index = 2
    /\ state = "running"
    /\ rejects = <<>>
    /\ fetches = <<>>
    /\ console = <<>>
    /\ trace = << [processor |-> processors[1], ended |-> "continue", reason |-> ""] >>

NextHeaders ==
    \/ Parsing
    \/ DomainCollapse
    \/ Subaddressing
    \/ PreDelivery

SpecHeaders == InitHeaders /\ [][NextHeaders]_vars

\* the same stages over messages given line by line: the header sections and
\* bodies the parser and the serialiser meet
InitParse ==
    /\ message \in RawMessages(MaxLines)
    /\ env = Env("", "", "")
    /\ backend = Response(200, "OK", Body("<value><int>5</int></value>"))
    /\ rawEmail = Null
    /\ parsedEmail = Null
    /\ finalRawEmail = Null
    /\ index = 2
    /\ state = "running"
    /\ rejects = <<>>
    /\ fetches = <<>>
    /\ console = <<>>
    /\ trace = << [processor |-> processors[1], ended |-> "continue", reason |-> ""] >>

SpecParse == InitParse /\ [][NextHeaders]_vars

(* ----------------------------------------------------------------------- *)
(* Properties of the pipeline runner                                       *)
(* ----------------------------------------------------------------------- *)
\* the reason of a failed delivery whose error message is text
DeliveryReason(text) ==
    "Unable to deliver to CRM. Unable to communicate with CRM server: " \o text

\* the delivery processor has called sendEmail in this run and the call
\* has returned or thrown
Attempted == fetches # <<>> /\ state # "running"

\* the backend answered the request with a status and a body that was read,
\* and the delivery processor returned its result to the loop
Answered ==
    /\ Attempted
    /\ ~backend.fetchError
    /\ ~backend.textError
    /\ trace[Len(trace)].ended # "fault"

\* a processor other than the last one threw in this run
StageFaulted ==
    \E i \in 1..Len(trace) :
        trace[i].ended = "fault" /\ trace[i].processor # "DeliveryProcessor"

\* C1: when a stage returns a rejection it is the last stage the run enters,
\* no request goes to the backend after a rejection of an earlier stage, and
\* setReject is called once, with the reason the stage returned or with the
\* generic reason when it returned none.
C1_RejectStopsPipeline ==
    /\ \A i \in 1..Len(trace) :
          trace[i].ended = "reject" =>
              /\ i = Len(trace)
              /\ state = "rejected"
              /\ rejects = << IF trace[i].reason = ""
                              THEN "Message rejected by processor."
                              ELSE trace[i].reason >>
              /\ (trace[i].processor # "DeliveryProcessor" => fetches = <<>>)
    /\ (rejects # <<>> => trace # <<>> /\ trace[Len(trace)].ended = "reject")

\* a run the spam check rejected: nothing was parsed and nothing was sent
C1_Witness ==
    /\ Len(trace) = 1
    /\ trace[1].processor = "SpamCheckProcessor"
    /\ trace[1].ended = "reject"
    /\ rejects = <<"Sender is blocked.">>
    /\ state = "rejected"
    /\ parsedEmail = Null
    /\ fetches = <<>>

\* C2: a step in which a stage throws leaves the rejections as they are and
\* moves the loop to the next stage, as a step in which the stage returned
\* continue does.
C2_FaultActsAsContinue ==
    [][ (Len(trace') = Len(trace) + 1 /\ trace'[Len(trace')].ended = "fault")
          => /\ rejects' = rejects
             /\ index' = index + 1
             /\ state' = IF index = Len(processors) THEN "completed" ELSE "running" ]_vars

\* a run whose spam check threw and whose message was parsed and delivered
C2_Witness ==
    /\ Len(trace) = 6
    /\ trace[1].processor = "SpamCheckProcessor"
    /\ trace[1].ended = "fault"
    /\ \A i \in 2..6 : trace[i].ended = "continue"
    /\ parsedEmail # Null
    /\ Len(fetches) = 1
    /\ rejects = <<>>
    /\ state = "completed"

\* the integer results a body of the classification runs can hold
IntegerResults(data) ==
    {v \in {0 - 5, 0, 5, 12} :
        \/ v = 0 - 5 /\ Includes(data, "<int>-5</int>")
        \/ v = 0 /\ Includes(data, "<int>0</int>")
        \/ v = 5 /\ Includes(data, "<int>5</int>")
        \/ v = 12 /\ Includes(data, "<INT> 12 </INT>")}

\* the ways a call of the backend does not succeed, read from the answer
\* itself: an error of fetch(), an error of reading the body, a status
\* outside 200..299, a fault, one record id that is not positive, a boolean
\* 0 without a record id, a body with none of these
CallFails(b) ==
    \/ b.fetchError
    \/ b.textError
    \/ b.status \notin 200..299
    \/ Includes(b.data, "<fault>")
    \/ \E v \in IntegerResults(b.data) : IntegerResults(b.data) = {v} /\ v <= 0
    \/ (IntegerResults(b.data) = {} /\ BooleanMatch(b.data) = "0")
    \/ (IntegerResults(b.data) = {} /\ BooleanMatch(b.data) = "")

\* C3: when the delivery stage has called the backend and the call did not
\* succeed, the run has ended rejected, with one reason that starts with
\* 'Unable to deliver to CRM. ', and not completed; a run completes after a
\* call only when the call succeeded.
C3_FailedCallRejects ==
    Attempted =>
        /\ CallFails(backend) =>
              /\ state = "rejected"
              /\ Len(rejects) = 1
              /\ StartsWith(rejects[1], "Unable to deliver to CRM. ")
              /\ trace[Len(trace)] =
                    [processor |-> "DeliveryProcessor", ended |-> "reject",
                     reason |-> rejects[1]]
        /\ (state = "completed" => ~CallFails(backend))

\* C4: a run in which a stage before delivery threw is never rejected for a
\* missing parsed message or for missing final bytes.
C4_StageFaultNeverRejects ==
    StageFaulted =>
        \A j \in 1..Len(rejects) :
            rejects[j] \notin {"No parsed email to deliver.",
                               "No final email data to deliver."}

(* ----------------------------------------------------------------------- *)
(* Properties of the classification of the backend's answer                *)
(* ----------------------------------------------------------------------- *)
\* C5: an answer whose status is outside 200..299 fails the delivery with
\* the status code and the status text as the reason, whatever its body.
C5_StatusBeforeBody ==
    (Answered /\ backend.status \notin 200..299) =>
        /\ state = "rejected"
        /\ rejects = <<DeliveryReason("HTTP Error: " \o ToString(backend.status)
                                      \o " " \o backend.statusText)>>

\* a 404 whose body holds a positive record id
C5_Witness ==
    /\ Answered
    /\ backend.status = 404
    /\ backend.data = "<methodResponse><value><int>5</int></value></methodResponse>"
    /\ state = "rejected"
    /\ rejects = <<DeliveryReason("HTTP Error: 404 Not Found")>>

\* an answer with a success status whose body has the fault indicator
Faulted == Answered /\ backend.status \in 200..299 /\ Includes(backend.data, "<fault>")

\* the reason of a fault whose string is faultString, when the strings that
\* contain route stand for the missing route
FaultReason(faultString, route) ==
    IF Includes(faultString, route)
    THEN "Mailbox not found or no valid route. Please check the mail alias or CRM configuration."
    ELSE "CRM Error: " \o faultString

\* a fault is a failure whose reason is the generic one exactly for the
\* fault strings that contain route, and otherwise carries the fault string
FaultRule(route) ==
    Faulted =>
        /\ state = "rejected"
        /\ rejects = <<DeliveryReason(FaultReason(FaultString(backend.data), route))>>
        /\ Includes(rejects[1], FaultString(backend.data))
              <=> ~Includes(FaultString(backend.data), route)

\* C6 as amended: a fault is always a failure; its reason is the generic
\* mailbox-not-found text, without the fault string, exactly when the fault
\* string contains 'ValueError: No possible route found for incoming
\* message', and 'CRM Error: ' followed by the fault string otherwise.
C6_RouteFaultIsGeneric ==
    FaultRule("ValueError: No possible route found for incoming message")

\* a route fault of the CRM, answered with the generic reason
C6_Witness ==
    /\ Faulted
    /\ FaultString(backend.data) =
          "ValueError: No possible route found for incoming message"
    /\ rejects = <<DeliveryReason("Mailbox not found or no valid route. Please check the mail alias or CRM configuration.")>>

\* C6 as stated: the reason is the generic text for every fault string that
\* contains 'No possible route found for incoming message'.
C6_AsStated ==
    FaultRule("No possible route found for incoming message")

\* C7: an answer with a success status, no fault indicator and one integer
\* result delivers the message when the integer is positive and fails with
\* 'Invalid record ID received from CRM.' when it is zero or negative.
C7_IntegerResultDecides ==
    (Answered /\ backend.status \in 200..299 /\ ~Includes(backend.data, "<fault>")) =>
        \A v \in IntegerResults(backend.data) :
            IntegerResults(backend.data) = {v} =>
                IF v > 0
                THEN state = "completed" /\ rejects = <<>>
                ELSE /\ state = "rejected"
                     /\ rejects = <<DeliveryReason("Invalid record ID received from CRM.")>>

\* C8: an answer with a success status, no fault indicator, no integer and
\* no boolean fails the delivery with 'Unexpected response format from
\* CRM.', and the console receives the whole body in base64.
C8_UnexpectedFormat ==
    ( /\ Answered
      /\ backend.status \in 200..299
      /\ ~Includes(backend.data, "<fault>")
      /\ IntMatch(backend.data) = ""
      /\ BooleanMatch(backend.data) = "" ) =>
        /\ state = "rejected"
        /\ rejects = <<DeliveryReason("Unexpected response format from CRM.")>>
        /\ \E k \in 1..Len(console) :
              console[k] = "[CrmServerHandler] Full response data (base64): "
                           \o base64ArrayBuffer(TextEncode(backend.data))

\* an empty methodResponse, with its base64 text on the console
C8_Witness ==
    /\ Answered
    /\ backend.status = 200
    /\ backend.data = "<methodResponse></methodResponse>"
    /\ rejects = <<DeliveryReason("Unexpected response format from CRM.")>>
    /\ console = << "[CrmServerHandler] Unexpected response format from CRM.",
                    "[CrmServerHandler] Full response data (base64): PG1ldGhvZFJlc3BvbnNlPjwvbWV0aG9kUmVzcG9uc2U+" >>

(* ----------------------------------------------------------------------- *)
(* Properties of the spam predicate                                        *)
(* ----------------------------------------------------------------------- *)
\* the spam check has returned a result in this run
SpamChecked == trace # <<>> /\ trace[1].ended # "fault"

\* the sender's mailbox in lower case, and the text before the angle
\* brackets of the From header
Mailbox == ToLowerCase(SenderEmail(message.headers.from))
DisplayName == SenderName(message.headers.from)

\* the reason of the first rule that matches, "" when none does
FirstRule(blocked, nameRequired, nameMissing, namePattern, keyword) ==
    IF blocked THEN "Sender is blocked."
    ELSE IF nameRequired /\ nameMissing THEN "Sender name is missing."
    ELSE IF nameRequired /\ namePattern THEN "Sender name resembles spam pattern."
    ELSE IF keyword THEN "Message contains spam keywords."
    ELSE ""

\* the outcome of the spam check is that of the rule whose reason is given
SpamOutcomeIs(reason) ==
    IF reason = ""
    THEN trace[1].ended = "continue" /\ rejects = <<>> /\ state = "running"
    ELSE trace[1].ended = "reject" /\ rejects = <<reason>> /\ state = "rejected"

\* C9: the spam check answers with the first rule that matches, in the order
\* blocklist, missing name and name pattern of a gmail.com sender, subject
\* keyword, and with continue when none matches; a sender on the blocklist
\* is rejected with 'Sender is blocked.' whatever the subject.
C9_FirstRuleWins ==
    SpamChecked =>
        /\ SpamOutcomeIs(FirstRule(Mailbox \in {"spam@example.com", "blocked@example.com"},
                                   EndsWith(Mailbox, "@gmail.com"),
                                   DisplayName = "",
                                   IsAlnumRun(DisplayName) /\ ResemblesSpamPattern(DisplayName),
                                   HasSpamKeyword(message.headers.subject)))
        /\ (Mailbox \in {"spam@example.com", "blocked@example.com"}
               => rejects = <<"Sender is blocked.">>)

\* a sender on the blocklist, written in another case, with a subject that
\* holds spam keywords
C9_Witness ==
    /\ SpamChecked
    /\ message.headers.from = "Blocked@Example.COM"
    /\ message.headers.subject = "Our Market Research WINNER"
    /\ rejects = <<"Sender is blocked.">>

\* C10: a gmail.com sender off the blocklist with a display name is rejected
\* with 'Sender name resembles spam pattern.' exactly when the name is made
\* of letters and digits only, has at least 8 letters, and its uppercase and
\* its lowercase letters are each 40 to 60 percent of the letters, ends
\* included.
C10_NamePattern ==
    ( /\ SpamChecked
      /\ Mailbox \notin {"spam@example.com", "blocked@example.com"}
      /\ EndsWith(Mailbox, "@gmail.com")
      /\ DisplayName # "" ) =>
        ( rejects = <<"Sender name resembles spam pattern.">>
          <=> /\ \A i \in 1..Len(DisplayName) : IsAlnum(Ch(DisplayName, i))
              /\ CountIn(DisplayName, UpperAlpha \o LowerAlpha) >= 8
              /\ 40 * CountIn(DisplayName, UpperAlpha \o LowerAlpha) <= 100 * CountIn(DisplayName, UpperAlpha)
              /\ 100 * CountIn(DisplayName, UpperAlpha) <= 60 * CountIn(DisplayName, UpperAlpha \o LowerAlpha)
              /\ 40 * CountIn(DisplayName, UpperAlpha \o LowerAlpha) <= 100 * CountIn(DisplayName, LowerAlpha)
              /\ 100 * CountIn(DisplayName, LowerAlpha) <= 60 * CountIn(DisplayName, UpperAlpha \o LowerAlpha) )

\* a name of ten letters, four of them uppercase: 40 and 60 percent
C10_Witness ==
    /\ SpamChecked
    /\ message.headers.from = "XXXXyyyyyy <xyzabcde@gmail.com>"
    /\ rejects = <<"Sender name resembles spam pattern.">>

\* C11: a message whose From header is "XyZaBcDe" <xyzabcde@gmail.com>, the
\* name written in double quotes, is rejected by the spam check with 'Sender
\* name resembles spam pattern.'.
C11_QuotedNameRejected ==
    (SpamChecked /\ message.headers.from = "\"XyZaBcDe\" <xyzabcde@gmail.com>") =>
        /\ trace[1].ended = "reject"
        /\ rejects = <<"Sender name resembles spam pattern.">>

(* ----------------------------------------------------------------------- *)
(* Properties of the header stages                                         *)
(* ----------------------------------------------------------------------- *)
\* the processor called name returned continue in this run
Continued(name) ==
    \E i \in 1..Len(trace) : trace[i].processor = name /\ trace[i].ended = "continue"

\* the step taken is one in which the processor called name returned continue
StepOf(name) ==
    /\ Len(trace') = Len(trace) + 1
    /\ trace'[Len(trace')].processor = name
    /\ trace'[Len(trace')].ended = "continue"

\* the headers parseEmail gave for this run's bytes
ParsedHeaders == parseEmail(rawEmail[1]).headers

\* after has the headers of before, name by name in the same order, with
\* other values at most in the headers called To, Cc, Bcc and Subject
SameOrder(before, after) ==
    /\ Len(after) = Len(before)
    /\ \A i \in 1..Len(before) :
          /\ after[i].name = before[i].name
          /\ (after[i].value # before[i].value =>
                ToLowerCase(before[i].name) \in {"to", "cc", "bcc", "subject"})

\* C12: whichever of the domain-collapse and subaddressing stages have run,
\* the headers of the context are those of the parsed message, name by name
\* in the same order, and only To, Cc, Bcc and Subject values may differ.
C12_HeaderOrderStable ==
    (rawEmail # Null /\ parsedEmail # Null) =>
        SameOrder(ParsedHeaders, parsedEmail[1].headers)

\* a run in which both stages rewrote: the To value was collapsed and the
\* Subject was tagged, and the four headers are in their places
C12_Witness ==
    /\ Continued("DomainCollapseProcessor")
    /\ Continued("SubaddressingProcessor")
    /\ parsedEmail # Null
    /\ [i \in 1..Len(parsedEmail[1].headers) |->
           <<parsedEmail[1].headers[i].name, parsedEmail[1].headers[i].value>>] =
       << <<"From", "carol@example.net">>,
          <<"To", "\"Alice\" <sales@target.test>, sales@target.test">>,
          <<"To", "zed@example.com">>,
          <<"Subject", "[late] Hello">> >>

\* the last stage that has run is the processor called name, and it returned
\* continue
JustRan(name) ==
    /\ trace # <<>>
    /\ trace[Len(trace)].processor = name
    /\ trace[Len(trace)].ended = "continue"

\* the domain-collapse configuration of the run, and the map read from it
Mapping == env.DOMAIN_COLLAPSE_MAPPING
DomainMap == parseDomainCollapseMap(Mapping)

\* the part of a mailbox after its first '@', the whole remainder
Remainder(address) ==
    IF IndexOf(address, "@", 1) = 0 THEN ""
    ELSE SubSeq(address, IndexOf(address, "@", 1) + 1, Len(address))

\* an address rewritten when the remainder of its mailbox is a domain key
CollapsedByRemainder(domainMap, addrStr) ==
    IF ToLowerCase(Remainder(parseAddress(addrStr).address)) \in DOMAIN domainMap
    THEN formatAddress(parseAddress(addrStr).displayName,
                       domainMap[ToLowerCase(Remainder(parseAddress(addrStr).address))])
    ELSE addrStr

\* the value of an address header after such a rewriting of its addresses
CollapsedValue(domainMap, addresses) ==
    Join([k \in 1..Len(addresses) |-> CollapsedByRemainder(domainMap, addresses[k])],
         ", ")

\* C13: domain collapse with a configured map rewrites, in the To, Cc and
\* Bcc headers, exactly the addresses whose mailbox has a configured domain
\* key (without regard to case) as the whole remainder after its first '@',
\* to the configured target under the address's own display name.
C13_CollapseByRemainder ==
    (JustRan("DomainCollapseProcessor") /\ parsedEmail # Null /\ DOMAIN DomainMap # {}) =>
        \A i \in 1..Len(ParsedHeaders) :
            ToLowerCase(ParsedHeaders[i].name) \in {"to", "cc", "bcc"} =>
                parsedEmail[1].headers[i].value =
                    CollapsedValue(DomainMap, splitAddresses(ParsedHeaders[i].value))

\* the positions of the headers called name, without regard to case
Named(headers, name) ==
    {i \in 1..Len(headers) : ToLowerCase(headers[i].name) = name}

\* the position of the first To header
FirstTo(headers) ==
    CHOOSE i \in Named(headers, "to") : \A j \in Named(headers, "to") : i <= j

\* C14: in a message with more than one To header the subaddressing stage
\* rewrites the first To header only: every later To header keeps the value
\* it had, and the Subject takes no tag when the first To header holds no
\* plus-address.
C14_OnlyFirstTo ==
    [][(/\ StepOf("SubaddressingProcessor")
        /\ parsedEmail # Null
        /\ Cardinality(Named(parsedEmail[1].headers, "to")) > 1) =>
          /\ \A i \in Named(parsedEmail[1].headers, "to") :
                i > FirstTo(parsedEmail[1].headers) =>
                    parsedEmail'[1].headers[i].value = parsedEmail[1].headers[i].value
          /\ (processSubaddressing(<<parsedEmail[1].headers[FirstTo(parsedEmail[1].headers)]>>).subaddressTag = "") =>
                \A i \in Named(parsedEmail[1].headers, "subject") :
                    parsedEmail'[1].headers[i].value = parsedEmail[1].headers[i].value]_vars

\* an address with the tag of its mailbox removed, under its display name
Untagged(addrStr) ==
    IF PlusMatch(parseAddress(addrStr).address).matched
    THEN formatAddress(parseAddress(addrStr).displayName,
                       PlusMatch(parseAddress(addrStr).address).localPart \o "@" \o
                       PlusMatch(parseAddress(addrStr).address).domainPart)
    ELSE addrStr

\* the addresses of the To headers among the first i headers, in list order
RECURSIVE ToAddresses(_, _)
ToAddresses(headers, i) ==
    IF i = 0 THEN <<>>
    ELSE ToAddresses(headers, i - 1) \o
         (IF ToLowerCase(headers[i].name) = "to"
          THEN splitAddresses(headers[i].value) ELSE <<>>)

\* the tag of the first address of a list that carries one, "" if none does
Tagged(addresses) ==
    {k \in 1..Len(addresses) : PlusMatch(parseAddress(addresses[k]).address).matched}
FirstTag(addresses) ==
    IF Tagged(addresses) = {} THEN ""
    ELSE PlusMatch(parseAddress(addresses[
             CHOOSE k \in Tagged(addresses) : \A j \in Tagged(addresses) : k <= j
         ]).address).tag

\* the tag subaddressing captures from the parsed message it is given
CapturedTag == FirstTag(ToAddresses(parsedEmail[1].headers, Len(parsedEmail[1].headers)))

\* C15: a subaddressing step leaves in each To header it processes the
\* addresses of the header in order, each local+tag@domain mailbox rewritten
\* to local@domain, and a Subject it changes takes the tag of the first
\* matching address in list order and of no later one.
C15_FirstTagCarried ==
    [][(StepOf("SubaddressingProcessor") /\ parsedEmail # Null) =>
          /\ \A i \in Named(parsedEmail[1].headers, "to") :
                parsedEmail'[1].headers[i].value =
                    Join([k \in 1..Len(splitAddresses(parsedEmail[1].headers[i].value)) |->
                             Untagged(splitAddresses(parsedEmail[1].headers[i].value)[k])],
                         ", ")
          /\ \A i \in Named(parsedEmail[1].headers, "subject") :
                parsedEmail'[1].headers[i].value \in
                    {parsedEmail[1].headers[i].value,
                     "[" \o CapturedTag \o "] " \o parsedEmail[1].headers[i].value}]_vars

\* two tagged addresses in one To header: both are rewritten and the Subject
\* carries the first tag
C15_Witness ==
    /\ JustRan("SubaddressingProcessor")
    /\ parsedEmail # Null
    /\ [i \in 1..Len(ParsedHeaders) |-> <<ParsedHeaders[i].name, ParsedHeaders[i].value>>] =
          << <<"From", "carol@example.net">>,
             <<"To", "bob+news@example.com, eve+a+b@example.net">>,
             <<"Subject", "Hello">> >>
    /\ [i \in 1..Len(parsedEmail[1].headers) |-> parsedEmail[1].headers[i].value] =
          << "carol@example.net", "bob@example.com, eve@example.net", "[news] Hello" >>

\* C16: a subaddressing step puts "[tag] " before a Subject value exactly
\* when a tag was captured and the value does not already contain "[tag]",
\* compared without regard to case; it creates no header, and when no tag
\* was captured or the message has no Subject header it changes no header
\* other than the To headers it rewrites.
C16_SubjectTagged ==
    [][(StepOf("SubaddressingProcessor") /\ parsedEmail # Null) =>
          /\ [i \in 1..Len(parsedEmail'[1].headers) |-> parsedEmail'[1].headers[i].name] =
             [i \in 1..Len(parsedEmail[1].headers) |-> parsedEmail[1].headers[i].name]
          /\ \A i \in Named(parsedEmail[1].headers, "subject") :
                parsedEmail'[1].headers[i].value =
                    IF /\ CapturedTag # ""
                       /\ ~Includes(ToLowerCase(parsedEmail[1].headers[i].value),
                                    ToLowerCase("[" \o CapturedTag \o "]"))
                    THEN "[" \o CapturedTag \o "] " \o parsedEmail[1].headers[i].value
                    ELSE parsedEmail[1].headers[i].value
          /\ (CapturedTag = "" \/ Named(parsedEmail[1].headers, "subject") = {}) =>
                \A i \in (1..Len(parsedEmail[1].headers)) \ Named(parsedEmail[1].headers, "to") :
                    parsedEmail'[1].headers[i] = parsedEmail[1].headers[i]]_vars

\* a Subject that holds the tag in capitals is left alone, and a second
\* Subject without it is prefixed
C16_Witness ==
    /\ JustRan("SubaddressingProcessor")
    /\ parsedEmail # Null
    /\ [i \in 1..Len(parsedEmail[1].headers) |->
           <<parsedEmail[1].headers[i].name, parsedEmail[1].headers[i].value>>] =
          << <<"From", "carol@example.net">>,
             <<"TO", "bob@example.com">>,
             <<"SUBJECT", "Re: [NEWS] update">>,
             <<"Subject", "[news] second">> >>

\* the parsed message keeps, across a step, its body and every header at a
\* position outside the set touched
FrameKept(touched) ==
    /\ parsedEmail'[1].body = parsedEmail[1].body
    /\ Len(parsedEmail'[1].headers) = Len(parsedEmail[1].headers)
    /\ \A i \in (1..Len(parsedEmail[1].headers)) \ touched :
          parsedEmail'[1].headers[i] = parsedEmail[1].headers[i]

\* C17: a domain-collapse step changes no header other than those named To,
\* Cc or Bcc, a subaddressing step changes no header other than those named
\* To or Subject (so a tagged address in Cc or Bcc stays as it is), and
\* neither changes the body.
C17_OtherHeadersKept ==
    [][/\ (StepOf("DomainCollapseProcessor") /\ parsedEmail # Null) =>
              FrameKept(Named(parsedEmail[1].headers, "to")
                        \cup Named(parsedEmail[1].headers, "cc")
                        \cup Named(parsedEmail[1].headers, "bcc"))
       /\ (StepOf("SubaddressingProcessor") /\ parsedEmail # Null) =>
              FrameKept(Named(parsedEmail[1].headers, "to")
                        \cup Named(parsedEmail[1].headers, "subject"))]_vars

\* both stages have run on a message whose Cc holds a tagged address and an
\* address of a collapsed domain: the tag is still there, and so is the
\* address-like text of X-Note
C17_Witness ==
    /\ JustRan("SubaddressingProcessor")
    /\ Continued("DomainCollapseProcessor")
    /\ parsedEmail # Null
    /\ parsedEmail[1].body = parseEmail(rawEmail[1]).body
    /\ [i \in 1..Len(parsedEmail[1].headers) |->
           <<parsedEmail[1].headers[i].name, parsedEmail[1].headers[i].value>>] =
          << <<"From", "carol@example.net">>,
             <<"Cc", "eve+a+b@example.net, \"Alice\" <sales@target.test>">>,
             <<"Subject", "Hello">>,
             <<"X-Note", "see bob+x@example.org">> >>

\* an entry of the configuration string that has an '=' with a domain before
\* it and a target after it, and the domain key it configures
EntryValid(entry, eqIndex) ==
    /\ eqIndex > 0
    /\ Trim(SubSeq(entry, 1, eqIndex - 1)) # ""
    /\ Trim(SubSeq(entry, eqIndex + 1, Len(entry))) # ""
ValidEntry(piece) == EntryValid(Trim(piece), IndexOf(Trim(piece), "=", 1))
EntryKey(piece) ==
    ToLowerCase(Trim(SubSeq(Trim(piece), 1, IndexOf(Trim(piece), "=", 1) - 1)))
ValidKeys(str) ==
    {EntryKey(SplitSeparators(str)[k]) :
        k \in {j \in 1..Len(SplitSeparators(str)) : ValidEntry(SplitSeparators(str)[j])}}

\* C18: whatever the domain-collapse configuration string, the stage does
\* not reject; the map it reads has the keys of the valid entries only, and
\* when the string has no valid entry the parsed message is left as it was.
C18_BadMappingIsNoOp ==
    [][/\ (At("DomainCollapseProcessor") /\ trace' # trace) =>
              /\ trace'[Len(trace')].ended # "reject"
              /\ rejects' = rejects
              /\ state' # "rejected"
       /\ (StepOf("DomainCollapseProcessor") /\ parsedEmail # Null) =>
              /\ DOMAIN DomainMap \subseteq ValidKeys(Mapping)
              /\ (ValidKeys(Mapping) = {}) => (parsedEmail' = parsedEmail)]_vars

\* the stage has run under a configuration of malformed entries only, on a
\* To list joined without spaces, which is still joined so
C18_Witness ==
    /\ JustRan("DomainCollapseProcessor")
    /\ Mapping = "nonsense; =x@y.test, z.test="
    /\ parsedEmail # Null
    /\ parsedEmail[1].headers[2].name = "To"
    /\ parsedEmail[1].headers[2].value = "bob+news@example.com,eve+a+b@example.net"

(* ----------------------------------------------------------------------- *)
(* Properties of the parsing stage                                         *)
(* ----------------------------------------------------------------------- *)
\* reading the stream of the message fails: the reader raises an error, or
\* the chunks hold more bytes than the declared size
ReadFails ==
    \/ message.readError
    \/ Len(Bytes(message.raw[1])) + Len(Bytes(message.raw[2])) > message.rawSize

NamesValues(headers) ==
    [i \in 1..Len(headers) |-> <<headers[i].name, headers[i].value>>]

\* the name/value pairs of the header lines the message was written from:
\* the text before the colon and the text after it, without the white space
\* around them
InputPairs ==
    [i \in 1..Len(message.lines) |->
        <<Trim(message.lines[i][1]), Trim(message.lines[i][2])>>]

\* parsing a buffer, serialising the result and parsing that
RoundTrip(buffer) ==
    parseEmail(reSerialiseEmail(parseEmail(buffer).headers, parseEmail(buffer).body))

\* C20: for a message of unfolded, well-formed header lines, parsing the
\* bytes, serialising the parsed message and parsing the output gives the
\* name/value pairs of the input header lines, in their order.
C20_RoundTripKeepsHeaders ==
    (JustRan("ParsingProcessor") /\ rawEmail # Null) =>
        /\ NamesValues(ParsedHeaders) = InputPairs
        /\ NamesValues(RoundTrip(rawEmail[1]).headers) = InputPairs

\* a parsed message with LF line ends whose X-Note line carries spaces around
\* its value
C20_Witness ==
    /\ JustRan("ParsingProcessor")
    /\ rawEmail # Null
    /\ ~Includes(rawEmail[1], "\r")
    /\ Len(message.lines) = 4
    /\ message.lines[4] = <<"X-Note", "  see bob+x@example.org \f">>
    /\ NamesValues(RoundTrip(rawEmail[1]).headers)[4] = <<"X-Note", "see bob+x@example.org">>

(* ----------------------------------------------------------------------- *)
(* Properties of the request                                               *)
(* ----------------------------------------------------------------------- *)
\* a text with its markup-special characters written as entities
XmlEscape(s) ==
    Join([i \in 1..Len(s) |->
             IF Ch(s, i) = "&" THEN "&amp;"
             ELSE IF Ch(s, i) = "<" THEN "&lt;"
             ELSE IF Ch(s, i) = ">" THEN "&gt;"
             ELSE Ch(s, i)], "")

\* the number of places of s at which lit occurs
Occurrences(s, lit) == Cardinality({i \in 1..Len(s) : MatchAt(s, i, lit)})

\* C21: the request sent carries the database name, the user id and the
\* password with their markup-special characters escaped, so that it has
\* the seven parameters of the call whatever these values hold.
C21_RequestEscaped ==
    \A i \in 1..Len(fetches) :
        /\ Occurrences(fetches[i].body, "<param>") = 7
        /\ Occurrences(fetches[i].body, "</param>") = 7
        /\ Includes(fetches[i].body,
                    "<param><value><string>" \o XmlEscape(CrmOptions(env).database)
                        \o "</string></value></param>")
        /\ Includes(fetches[i].body,
                    "<param><value><int>" \o XmlEscape(CrmOptions(env).userid)
                        \o "</int></value></param>")
        /\ Includes(fetches[i].body,
                    "<param><value><string>" \o XmlEscape(CrmOptions(env).password)
                        \o "</string></value></param>")

(* ----------------------------------------------------------------------- *)
(* Properties of whole runs                                                *)
(* ----------------------------------------------------------------------- *)
\* the run is over: the loop has left its last processor or has returned
\* after a rejection
Ended == state \in {"completed", "rejected"}

\* C22: a run that ends without a call of setReject has sent its request to
\* the backend and its delivery stage has returned continue on the answer,
\* also when a stage raised a fault on the way.
C22_CompletedMeansDelivered ==
    (Ended /\ rejects = <<>>) =>
        /\ Attempted
        /\ trace[Len(trace)].processor = "DeliveryProcessor"
        /\ trace[Len(trace)].ended = "continue"

\* C23: every step of a run is taken while setReject has not been called;
\* after the step setReject has been called at most once and at most one
\* request has been sent; the step is the end of one stage, or the sending
\* of the first request by a stage that has not ended.  So nothing runs and
\* nothing is sent after a rejection, and nothing is sent twice.
C23_OnceOnly ==
    [][/\ rejects = <<>>
       /\ Len(rejects') <= 1
       /\ Len(fetches') <= 1
       /\ \/ Len(trace') = Len(trace) + 1
          \/ trace' = trace /\ fetches = <<>> /\ Len(fetches') = 1]_vars

\* a run in which an earlier stage raised a fault and the delivery stage
\* sent its one request and rejected on the answer
C23_Witness ==
    /\ StageFaulted
    /\ state = "rejected"
    /\ Len(rejects) = 1
    /\ Len(fetches) = 1
    /\ trace[Len(trace)].processor = "DeliveryProcessor"

(* ----------------------------------------------------------------------- *)
(* Properties of the response log                                          *)
(* ----------------------------------------------------------------------- *)
\* the console holds the line with the whole response body in base64
BodyEmitted ==
    \E i \in 1..Len(console) : console[i] = FullResponseLine(backend.data)

\* C24: when the backend answered and the delivery was rejected, the whole
\* response body was written to the console in base64 exactly when the
\* status was a success status: every failure found in the body emits it,
\* and the failure of the status does not.
C24_FailureEmitsBody ==
    (Answered /\ state = "rejected") => (BodyEmitted <=> backend.ok)

(* ----------------------------------------------------------------------- *)
(* Properties of the parser                                                *)
(* ----------------------------------------------------------------------- *)
\* a line of the header section that begins with a space or a tab
IsContinuation(line) == Ch(line, 1) \in {" ", "\t"}

\* a line of the header section that starts a header
IsStarter(line) == ~IsContinuation(line)

\* the name and the value a starting line gives: the text before its first
\* colon and the text after it, trimmed, or the whole trimmed line and ""
LineName(line) ==
    IF IndexOf(line, ":", 1) # 0 THEN Trim(SubSeq(line, 1, IndexOf(line, ":", 1) - 1))
    ELSE Trim(line)
LineValue(line) ==
    IF IndexOf(line, ":", 1) # 0
    THEN Trim(SubSeq(line, IndexOf(line, ":", 1) + 1, Len(line)))
    ELSE ""

\* C25: the headers the parser gives are, in order, one for each line of the
\* header section that is no continuation, with the name of the line and a
\* value that begins with the value of the line; no such line is dropped,
\* a line that starts with a colon included.
C25_EveryLineOneHeader ==
    (JustRan("ParsingProcessor") /\ parsedEmail # Null) =>
        /\ Len(parsedEmail[1].headers) = Len(SelectSeq(message.lines, IsStarter))
        /\ \A k \in 1..Len(parsedEmail[1].headers) :
              /\ parsedEmail[1].headers[k].name =
                    LineName(SelectSeq(message.lines, IsStarter)[k])
              /\ StartsWith(parsedEmail[1].headers[k].value,
                            LineValue(SelectSeq(message.lines, IsStarter)[k]))

\* the number of continuation lines that follow line j without a break
Folded(lines, j) ==
    Cardinality({i \in (j + 1)..Len(lines) :
                    \A m \in (j + 1)..i : IsContinuation(lines[m])})

\* the value of the header line j starts, with its continuation lines: the
\* trimmed text of each after one space
FoldedValue(lines, j) ==
    LineValue(lines[j]) \o
    Join([m \in 1..Folded(lines, j) |-> " " \o Trim(lines[j + m])], "")

\* C26: a line of the header section that begins with a space or a tab
\* starts no header; its trimmed text, after one space, follows in the value
\* of the header started most recently, and so the text of every such line
\* is found in the value of some header the parser gives.
C26_ContinuationKept ==
    (JustRan("ParsingProcessor") /\ parsedEmail # Null) =>
        /\ Len(parsedEmail[1].headers) <= Len(SelectSeq(message.lines, IsStarter))
        /\ \A j \in 1..Len(message.lines) :
              (IsStarter(message.lines[j]) /\ LineName(message.lines[j]) # "") =>
                  \E k \in 1..Len(parsedEmail[1].headers) :
                      /\ parsedEmail[1].headers[k].name = LineName(message.lines[j])
                      /\ parsedEmail[1].headers[k].value = FoldedValue(message.lines, j)
        /\ \A i \in 1..Len(message.lines) :
              IsContinuation(message.lines[i]) =>
                  \E k \in 1..Len(parsedEmail[1].headers) :
                      Includes(parsedEmail[1].headers[k].value,
                               " " \o Trim(message.lines[i]))

(* ----------------------------------------------------------------------- *)
(* Properties of the rewriting stages taken together                       *)
(* ----------------------------------------------------------------------- *)
\* C27: when the To headers that subaddressing has produced hold no address
\* of the form local+tag@domain, subaddressing those headers again gives
\* the same headers: every name, value and raw line is as before.
C27_SecondRunIsNoOp ==
    (/\ JustRan("SubaddressingProcessor")
     /\ parsedEmail # Null
     /\ CapturedTag = "") =>
        SubaddressingHeaders(parsedEmail[1].headers) = parsedEmail[1].headers

\* subaddressing has stripped the tags of two To headers, one address under
\* a quoted name with a comma, and tagged the Subject; no tag is left
C27_Witness ==
    /\ JustRan("SubaddressingProcessor")
    /\ parsedEmail # Null
    /\ CapturedTag = ""
    /\ NamesValues(parsedEmail[1].headers) =
          << <<"From", "carol@example.net">>,
             <<"To", "\"Dan, D\" <dan@b@example.org>, bob@example.com">>,
             <<"To", "zed@example.com">>,
             <<"Subject", "[x] Hello">> >>

\* no address of the list has a mailbox whose domain is a key of the map,
\* whether the domain is read up to the next '@' or to the end
NoneConfigured(domainMap, addresses) ==
    \A k \in 1..Len(addresses) :
        /\ ToLowerCase(Remainder(parseAddress(addresses[k]).address)) \notin DOMAIN domainMap
        /\ ToLowerCase(DomainPart(parseAddress(addresses[k]).address)) \notin DOMAIN domainMap

\* C28: under a map with at least one entry, a To, Cc or Bcc header none of
\* whose addresses has a configured domain leaves the domain-collapse stage
\* with the value the parser gave it, character for character.
C28_UntouchedValueKept ==
    (/\ JustRan("DomainCollapseProcessor")
     /\ parsedEmail # Null
     /\ DOMAIN DomainMap # {}) =>
        \A i \in Named(ParsedHeaders, "to") \cup Named(ParsedHeaders, "cc")
                 \cup Named(ParsedHeaders, "bcc") :
            NoneConfigured(DomainMap, splitAddresses(ParsedHeaders[i].value)) =>
                parsedEmail[1].headers[i].value = ParsedHeaders[i].value

\* the mailbox of an address has a configured domain
Configured(domainMap, addrStr) ==
    /\ ToLowerCase(Remainder(parseAddress(addrStr).address)) \in DOMAIN domainMap
    /\ ToLowerCase(DomainPart(parseAddress(addrStr).address)) \in DOMAIN domainMap

\* the values of the Subject headers among headers, in order
SubjectValues(headers) ==
    SelectSeq(NamesValues(headers), LAMBDA p : ToLowerCase(p[1]) = "subject")

\* every To address of the parsed message that carries a tag has a
\* configured domain, and no configured target holds a '+'
TagsAllCollapsed ==
    /\ \A k \in 1..Len(ToAddresses(ParsedHeaders, Len(ParsedHeaders))) :
          PlusMatch(parseAddress(ToAddresses(ParsedHeaders, Len(ParsedHeaders))[k]).address).matched
              => Configured(DomainMap, ToAddresses(ParsedHeaders, Len(ParsedHeaders))[k])
    /\ \A d \in DOMAIN DomainMap : ~Includes(DomainMap[d], "+")

\* C29: domain collapse runs before subaddressing, so when every tagged To
\* address has a configured domain, and no target holds a '+', the tagged
\* addresses are replaced before a tag is looked for: the Subject of the
\* serialised message is the Subject the parser gave.
C29_CollapseHidesTag ==
    (/\ JustRan("PreDeliveryProcessor")
     /\ Continued("DomainCollapseProcessor")
     /\ Continued("SubaddressingProcessor")
     /\ rawEmail # Null
     /\ finalRawEmail # Null
     /\ TagsAllCollapsed) =>
        SubjectValues(parseEmail(finalRawEmail[1]).headers) = SubjectValues(ParsedHeaders)

\* a message to bob+news@example.com under a map that collapses
\* example.com: the serialised message goes to the target, its Subject as
\* it came
C29_Witness ==
    /\ JustRan("PreDeliveryProcessor")
    /\ Continued("DomainCollapseProcessor")
    /\ Continued("SubaddressingProcessor")
    /\ rawEmail # Null
    /\ finalRawEmail # Null
    /\ NamesValues(ParsedHeaders) =
          << <<"From", "carol@example.net">>, <<"To", "bob+news@example.com">>,
             <<"Subject", "Hello">> >>
    /\ NamesValues(parseEmail(finalRawEmail[1]).headers) =
          << <<"From", "carol@example.net">>, <<"To", "in@crm.test">>,
             <<"Subject", "Hello">> >>

(* ----------------------------------------------------------------------- *)
(* Properties of the body                                                  *)
(* ----------------------------------------------------------------------- *)
\* the bytes of a serialised message after its blank-line separator
AfterSeparator(buffer) ==
    SubSeq(buffer, IndexOf(buffer, "\r\n\r\n", 1) + 4, Len(buffer))

\* C30: the bytes after the blank-line separator of the serialised message
\* are the body bytes of the inbound message, whatever line terminators the
\* body has and whether or not the message has a header.
C30_BodyBytesKept ==
    (/\ JustRan("PreDeliveryProcessor")
     /\ Continued("ParsingProcessor")
     /\ finalRawEmail # Null) =>
        AfterSeparator(finalRawEmail[1]) = message.body

====
